---- MODULE Spec2Model ----
(***************************************************************************)
(* Convective-Risk-Analyzer: the deterministic risk classifier of          *)
(* src/risk_assessment.py (RiskLevel, StakeholderRisk, RiskAssessment,     *)
(* RiskAssessor) over the ConvectiveIndices value of                       *)
(* src/convective_engine.py.                                               *)
(*                                                                         *)
(* CAPE and CIN are in J/kg.  The classifier only compares them with       *)
(* integer literals, so the model draws them from the integers lying       *)
(* within Delta of each literal the code compares against (plus 0), with   *)
(* both signs, because RiskAssessor.__init__ takes absolute values.        *)
(***************************************************************************)
EXTENDS Integers, Sequences, FiniteSets, TLC

VARIABLES indices, assessor, call, result,
          arrays, sounding, validation, analyzer, pipelines,
          source, tmp

vars == <<indices, assessor, call, result,
          arrays, sounding, validation, analyzer, pipelines,
          source, tmp>>

(***************************************************************************)
(* Bounds of the input domain.                                             *)
(***************************************************************************)
Delta == 1

\* the literals the classifier compares self.cape / self.cin against
CapeThresholds == {200, 300, 500, 1000, 1500, 2500}
CinThresholds == {50, 100, 200}

\* the CAPE / CIN of the two end-to-end scenarios: a strong cap with little
\* CAPE (150, 50) and a weak cap with much CAPE (20, 1800)
ScenarioCape == {50, 1800}
ScenarioCin == {20, 150}

Near(T) == {t + d : t \in T, d \in (0 - Delta)..Delta}
CapeMagnitudes == {0} \cup Near(CapeThresholds \cup ScenarioCape)
CinMagnitudes == {0} \cup Near(CinThresholds \cup ScenarioCin)
Signed(S) == S \cup {0 - x : x \in S}

(***************************************************************************)
(* Optional[float]: None is the empty sequence, a present value x is <<x>>. *)
(***************************************************************************)
None == << >>
Some(x) == <<x>>

\* ConvectiveIndices (dataclass).  The fields the classifier never reads
\* carry the values quick_risk_assessment gives them; LFC and EL are
\* present or absent.
ConvectiveIndices(cape, cin, lfc, el) ==
    [cape |-> cape, cin |-> cin,
     lcl_pressure |-> 900, lcl_temperature |-> 15,
     lfc_pressure |-> IF lfc THEN Some(850) ELSE None,
     lfc_temperature |-> IF lfc THEN Some(12) ELSE None,
     el_pressure |-> IF el THEN Some(300) ELSE None,
     el_temperature |-> IF el THEN Some(0 - 40) ELSE None,
     surface_temperature |-> 25, surface_dewpoint |-> 18,
     parcel_profile |-> None]

InputIndices ==
    {ConvectiveIndices(c, n, l, e) :
        c \in Signed(CapeMagnitudes), n \in Signed(CinMagnitudes),
        l \in BOOLEAN, e \in BOOLEAN}

(***************************************************************************)
(* RiskLevel (Enum) and its score property.                                *)
(***************************************************************************)
RiskLevel == {"EXTREME", "HIGH", "MODERATE", "LOW", "MINIMAL"}

score(level) ==
    CASE level = "EXTREME" -> 5
      [] level = "HIGH" -> 4
      [] level = "MODERATE" -> 3
      [] level = "LOW" -> 2
      [] level = "MINIMAL" -> 1

\* Python's abs()
abs(x) == IF x < 0 THEN 0 - x ELSE x

\* An f-string with one "{value:.0f}" field: the text before the field, the
\* formatted value (the inputs are whole numbers, so .0f prints them as they
\* are) and the text after it.
Fmt(pre, value, post) == [pre |-> pre, value |-> value, post |-> post]

StakeholderRisk(activity, risk_level, go_no_go, reasoning, precautions) ==
    [activity |-> activity, risk_level |-> risk_level, go_no_go |-> go_no_go,
     reasoning |-> reasoning, precautions |-> precautions]

\* mutant: CIN kept with the sign it is reported with
RiskAssessor_signed_cin(ind) ==
    [indices |-> ind, cape |-> abs(ind.cape), cin |-> ind.cin]

\* RiskAssessor.__init__
RiskAssessor(ind) ==
    [indices |-> ind, cape |-> abs(ind.cape), cin |-> abs(ind.cin)]

\* mutant: the label read from the raw indices.cape, not its magnitude
classify_convective_potential_raw(self) ==
    IF self.indices.cape < 300 THEN "WEAK"
    ELSE IF self.indices.cape < 1000 THEN "MODERATE"
    ELSE IF self.indices.cape < 2500 THEN "STRONG"
    ELSE "EXTREME"

classify_convective_potential(self) ==
    IF self.cape < 300 THEN "WEAK"
    ELSE IF self.cape < 1000 THEN "MODERATE"
    ELSE IF self.cape < 2500 THEN "STRONG"
    ELSE "EXTREME"

\* mutant: the moderate-cap test written >= 100
assess_general_risk_ge(self) ==
    IF self.cin > 200 THEN "MINIMAL"
    ELSE IF self.cin >= 100 THEN "LOW"
    ELSE IF self.cape < 300 THEN "LOW"
    ELSE IF self.cape < 1000 THEN "MODERATE"
    ELSE IF self.cape < 2500 THEN "HIGH"
    ELSE "EXTREME"

\* mutant: the MODERATE and HIGH returns exchanged
assess_general_risk_swapped(self) ==
    IF self.cin > 200 THEN "MINIMAL"
    ELSE IF self.cin > 100 THEN "LOW"
    ELSE IF self.cape < 300 THEN "LOW"
    ELSE IF self.cape < 1000 THEN "HIGH"
    ELSE IF self.cape < 2500 THEN "MODERATE"
    ELSE "EXTREME"

\* mutant: the strong-cap test written with 150
assess_general_risk_cap150(self) ==
    IF self.cin > 150 THEN "MINIMAL"
    ELSE IF self.cin > 100 THEN "LOW"
    ELSE IF self.cape < 300 THEN "LOW"
    ELSE IF self.cape < 1000 THEN "MODERATE"
    ELSE IF self.cape < 2500 THEN "HIGH"
    ELSE "EXTREME"

assess_general_risk(self) ==
    IF self.cin > 200 THEN "MINIMAL"
    ELSE IF self.cin > 100 THEN "LOW"
    ELSE IF self.cape < 300 THEN "LOW"
    ELSE IF self.cape < 1000 THEN "MODERATE"
    ELSE IF self.cape < 2500 THEN "HIGH"
    ELSE "EXTREME"

\* mutant: CAPE checked before CIN
assess_paragliding_cape_first(self) ==
    IF self.cape > 1000 THEN
        StakeholderRisk("Paragliding", "EXTREME", FALSE,
            Fmt("DANGEROUS: High CAPE (", self.cape,
                " J/kg) with weak cap. Thunderstorm development likely."),
            <<"DO NOT FLY", "Wait for storms to pass",
              "Check forecast for storm timing">>)
    ELSE IF self.cape > 500 THEN
        StakeholderRisk("Paragliding", "HIGH", FALSE,
            Fmt("Moderate CAPE (", self.cape,
                " J/kg) with no cap. Convection possible."),
            <<"Fly early morning only", "Land by 11am",
              "Watch for first cumulus">>)
    ELSE IF self.cin > 200 THEN
        StakeholderRisk("Paragliding", "MINIMAL", TRUE,
            Fmt("Strong cap (CIN: ", self.cin,
                " J/kg) prevents convection. Excellent soaring conditions."),
            <<"Monitor for cap breakage",
              "Stay within glide range of landing zones">>)
    ELSE IF self.cin > 50 THEN
        StakeholderRisk("Paragliding", "LOW", TRUE,
            Fmt("Moderate cap (CIN: ", self.cin,
                " J/kg) limits convection development."),
            <<"Monitor cloud development",
              "Land if cumulus develops rapidly",
              "Avoid areas of convergence">>)
    ELSE
        StakeholderRisk("Paragliding", "MODERATE", TRUE,
            Fmt("Low CAPE (", self.cape,
                " J/kg), weak convection expected."),
            <<"Monitor cloud development", "Avoid overdevelopment areas",
              "Land if conditions deteriorate">>)

assess_paragliding(self) ==
    IF self.cin > 200 THEN
        StakeholderRisk("Paragliding", "MINIMAL", TRUE,
            Fmt("Strong cap (CIN: ", self.cin,
                " J/kg) prevents convection. Excellent soaring conditions."),
            <<"Monitor for cap breakage",
              "Stay within glide range of landing zones">>)
    ELSE IF self.cin > 50 THEN
        StakeholderRisk("Paragliding", "LOW", TRUE,
            Fmt("Moderate cap (CIN: ", self.cin,
                " J/kg) limits convection development."),
            <<"Monitor cloud development",
              "Land if cumulus develops rapidly",
              "Avoid areas of convergence">>)
    ELSE IF self.cape > 1000 THEN
        StakeholderRisk("Paragliding", "EXTREME", FALSE,
            Fmt("DANGEROUS: High CAPE (", self.cape,
                " J/kg) with weak cap. Thunderstorm development likely."),
            <<"DO NOT FLY", "Wait for storms to pass",
              "Check forecast for storm timing">>)
    ELSE IF self.cape > 500 THEN
        StakeholderRisk("Paragliding", "HIGH", FALSE,
            Fmt("Moderate CAPE (", self.cape,
                " J/kg) with no cap. Convection possible."),
            <<"Fly early morning only", "Land by 11am",
              "Watch for first cumulus">>)
    ELSE
        StakeholderRisk("Paragliding", "MODERATE", TRUE,
            Fmt("Low CAPE (", self.cape,
                " J/kg), weak convection expected."),
            <<"Monitor cloud development", "Avoid overdevelopment areas",
              "Land if conditions deteriorate">>)

\* mutant: the go/no-go of the paragliding result kept on a downgrade
assess_hang_gliding_keep_go(self) ==
    LET pg_risk == assess_paragliding(self)
        risk_level == IF pg_risk.risk_level = "HIGH" THEN "MODERATE"
                      ELSE IF pg_risk.risk_level = "MODERATE" THEN "LOW"
                      ELSE pg_risk.risk_level
    IN  StakeholderRisk("Hang Gliding", risk_level, pg_risk.go_no_go,
            Fmt("Similar to paragliding but higher wing loading provides more stability. "
                    \o pg_risk.reasoning.pre,
                pg_risk.reasoning.value, pg_risk.reasoning.post),
            pg_risk.precautions)

\* mutant: the paragliding level and decision passed on unchanged
assess_hang_gliding_no_downgrade(self) ==
    LET pg_risk == assess_paragliding(self)
    IN  StakeholderRisk("Hang Gliding", pg_risk.risk_level, pg_risk.go_no_go,
            Fmt("Similar to paragliding but higher wing loading provides more stability. "
                    \o pg_risk.reasoning.pre,
                pg_risk.reasoning.value, pg_risk.reasoning.post),
            pg_risk.precautions)

assess_hang_gliding(self) ==
    LET pg_risk == assess_paragliding(self)
        risk_level == IF pg_risk.risk_level = "HIGH" THEN "MODERATE"
                      ELSE IF pg_risk.risk_level = "MODERATE" THEN "LOW"
                      ELSE pg_risk.risk_level
        go_no_go == IF pg_risk.risk_level = "HIGH" THEN TRUE
                    ELSE IF pg_risk.risk_level = "MODERATE" THEN TRUE
                    ELSE pg_risk.go_no_go
    IN  StakeholderRisk("Hang Gliding", risk_level, go_no_go,
            Fmt("Similar to paragliding but higher wing loading provides more stability. "
                    \o pg_risk.reasoning.pre,
                pg_risk.reasoning.value, pg_risk.reasoning.post),
            pg_risk.precautions)

\* mutant: the cap test made before the CAPE > 200 test
assess_hot_air_balloon_cin_first(self) ==
    IF self.cape > 500 THEN
        StakeholderRisk("Hot Air Balloon", "EXTREME", FALSE,
            Fmt("CAPE ", self.cape,
                " J/kg too high. Balloons cannot escape convective conditions."),
            <<"DO NOT FLY", "Sunrise flights only",
              "Check forecast carefully">>)
    ELSE IF self.cape > 200 /\ self.cin <= 100 THEN
        StakeholderRisk("Hot Air Balloon", "HIGH", FALSE,
            Fmt("CAPE ", self.cape,
                " J/kg presents risk. Limited manoeuvrability in convection."),
            <<"Sunrise only", "Land before 8am",
              "Avoid afternoon operations">>)
    ELSE IF self.cin > 100 THEN
        StakeholderRisk("Hot Air Balloon", "MINIMAL", TRUE,
            Fmt("Low CAPE (", self.cape, " J/kg) with cap. Good conditions."),
            <<"Standard operating procedures", "Monitor surface heating">>)
    ELSE
        StakeholderRisk("Hot Air Balloon", "LOW", TRUE,
            Fmt("Low CAPE (", self.cape, " J/kg). Acceptable conditions."),
            <<"Fly early", "Monitor cumulus development",
              "Land if thermals strengthen">>)

\* mutant: the balloon given the CAPE limits 1500 and 1000
assess_hot_air_balloon_lenient(self) ==
    IF self.cape > 1500 THEN
        StakeholderRisk("Hot Air Balloon", "EXTREME", FALSE,
            Fmt("CAPE ", self.cape,
                " J/kg too high. Balloons cannot escape convective conditions."),
            <<"DO NOT FLY", "Sunrise flights only",
              "Check forecast carefully">>)
    ELSE IF self.cape > 1000 THEN
        StakeholderRisk("Hot Air Balloon", "HIGH", FALSE,
            Fmt("CAPE ", self.cape,
                " J/kg presents risk. Limited manoeuvrability in convection."),
            <<"Sunrise only", "Land before 8am",
              "Avoid afternoon operations">>)
    ELSE IF self.cin > 100 THEN
        StakeholderRisk("Hot Air Balloon", "MINIMAL", TRUE,
            Fmt("Low CAPE (", self.cape, " J/kg) with cap. Good conditions."),
            <<"Standard operating procedures", "Monitor surface heating">>)
    ELSE
        StakeholderRisk("Hot Air Balloon", "LOW", TRUE,
            Fmt("Low CAPE (", self.cape, " J/kg). Acceptable conditions."),
            <<"Fly early", "Monitor cumulus development",
              "Land if thermals strengthen">>)


assess_hot_air_balloon(self) ==
    IF self.cape > 500 THEN
        StakeholderRisk("Hot Air Balloon", "EXTREME", FALSE,
            Fmt("CAPE ", self.cape,
                " J/kg too high. Balloons cannot escape convective conditions."),
            <<"DO NOT FLY", "Sunrise flights only",
              "Check forecast carefully">>)
    ELSE IF self.cape > 200 THEN
        StakeholderRisk("Hot Air Balloon", "HIGH", FALSE,
            Fmt("CAPE ", self.cape,
                " J/kg presents risk. Limited manoeuvrability in convection."),
            <<"Sunrise only", "Land before 8am",
              "Avoid afternoon operations">>)
    ELSE IF self.cin > 100 THEN
        StakeholderRisk("Hot Air Balloon", "MINIMAL", TRUE,
            Fmt("Low CAPE (", self.cape, " J/kg) with cap. Good conditions."),
            <<"Standard operating procedures", "Monitor surface heating">>)
    ELSE
        StakeholderRisk("Hot Air Balloon", "LOW", TRUE,
            Fmt("Low CAPE (", self.cape, " J/kg). Acceptable conditions."),
            <<"Fly early", "Monitor cumulus development",
              "Land if thermals strengthen">>)

\* mutant: the cap test of the 1000..2500 band written with 50
assess_gliding_cap50(self) ==
    IF self.cape > 2500 THEN
        StakeholderRisk("Gliding (Sailplanes)", "HIGH", FALSE,
            Fmt("Extreme CAPE (", self.cape,
                " J/kg). Storm development likely."),
            <<"Morning flights only", "Land before convection develops",
              "Have alternate landing sites">>)
    ELSE IF self.cape > 1000 THEN
        IF self.cin > 50 THEN
            StakeholderRisk("Gliding (Sailplanes)", "LOW", TRUE,
                Fmt("Good CAPE (", self.cape,
                    " J/kg) with cap control. Excellent XC conditions."),
                <<"Monitor cap breakage", "Track storm development",
                  "Land away from storms">>)
        ELSE
            StakeholderRisk("Gliding (Sailplanes)", "MODERATE", TRUE,
                Fmt("High CAPE (", self.cape,
                    " J/kg) without cap. Good lift but storm risk."),
                <<"Fly early", "Land by early afternoon", "Monitor radar",
                  "20km storm clearance">>)
    ELSE IF self.cape > 300 THEN
        StakeholderRisk("Gliding (Sailplanes)", "LOW", TRUE,
            Fmt("Moderate CAPE (", self.cape,
                " J/kg). Good thermal conditions."),
            <<"Standard XC precautions", "Monitor convection development">>)
    ELSE
        StakeholderRisk("Gliding (Sailplanes)", "MINIMAL", TRUE,
            Fmt("Low CAPE (", self.cape,
                " J/kg). Weak thermals, blue day possible."),
            <<"Expect weak lift", "Plan for lower altitudes",
              "Ridge/wave soaring may be better">>)

\* mutant: the MODERATE band of gliding returned as a NO-GO
assess_gliding_moderate_nogo(self) ==
    IF self.cape > 2500 THEN
        StakeholderRisk("Gliding (Sailplanes)", "HIGH", FALSE,
            Fmt("Extreme CAPE (", self.cape,
                " J/kg). Storm development likely."),
            <<"Morning flights only", "Land before convection develops",
              "Have alternate landing sites">>)
    ELSE IF self.cape > 1000 THEN
        IF self.cin > 100 THEN
            StakeholderRisk("Gliding (Sailplanes)", "LOW", TRUE,
                Fmt("Good CAPE (", self.cape,
                    " J/kg) with cap control. Excellent XC conditions."),
                <<"Monitor cap breakage", "Track storm development",
                  "Land away from storms">>)
        ELSE
            StakeholderRisk("Gliding (Sailplanes)", "MODERATE", FALSE,
                Fmt("High CAPE (", self.cape,
                    " J/kg) without cap. Good lift but storm risk."),
                <<"Fly early", "Land by early afternoon", "Monitor radar",
                  "20km storm clearance">>)
    ELSE IF self.cape > 300 THEN
        StakeholderRisk("Gliding (Sailplanes)", "LOW", TRUE,
            Fmt("Moderate CAPE (", self.cape,
                " J/kg). Good thermal conditions."),
            <<"Standard XC precautions", "Monitor convection development">>)
    ELSE
        StakeholderRisk("Gliding (Sailplanes)", "MINIMAL", TRUE,
            Fmt("Low CAPE (", self.cape,
                " J/kg). Weak thermals, blue day possible."),
            <<"Expect weak lift", "Plan for lower altitudes",
              "Ridge/wave soaring may be better">>)


assess_gliding(self) ==
    IF self.cape > 2500 THEN
        StakeholderRisk("Gliding (Sailplanes)", "HIGH", FALSE,
            Fmt("Extreme CAPE (", self.cape,
                " J/kg). Storm development likely."),
            <<"Morning flights only", "Land before convection develops",
              "Have alternate landing sites">>)
    ELSE IF self.cape > 1000 THEN
        IF self.cin > 100 THEN
            StakeholderRisk("Gliding (Sailplanes)", "LOW", TRUE,
                Fmt("Good CAPE (", self.cape,
                    " J/kg) with cap control. Excellent XC conditions."),
                <<"Monitor cap breakage", "Track storm development",
                  "Land away from storms">>)
        ELSE
            StakeholderRisk("Gliding (Sailplanes)", "MODERATE", TRUE,
                Fmt("High CAPE (", self.cape,
                    " J/kg) without cap. Good lift but storm risk."),
                <<"Fly early", "Land by early afternoon", "Monitor radar",
                  "20km storm clearance">>)
    ELSE IF self.cape > 300 THEN
        StakeholderRisk("Gliding (Sailplanes)", "LOW", TRUE,
            Fmt("Moderate CAPE (", self.cape,
                " J/kg). Good thermal conditions."),
            <<"Standard XC precautions", "Monitor convection development">>)
    ELSE
        StakeholderRisk("Gliding (Sailplanes)", "MINIMAL", TRUE,
            Fmt("Low CAPE (", self.cape,
                " J/kg). Weak thermals, blue day possible."),
            <<"Expect weak lift", "Plan for lower altitudes",
              "Ridge/wave soaring may be better">>)

\* mutant: the NO-GO test written >= 1500
assess_general_aviation_ge(self) ==
    IF self.cape >= 1500 THEN
        StakeholderRisk("General Aviation (VFR)", "HIGH", FALSE,
            Fmt("High CAPE (", self.cape,
                " J/kg). Embedded thunderstorms likely."),
            <<"IFR flight plan", "Storm avoidance equipment required",
              "20nm storm clearance", "Consider delaying flight">>)
    ELSE IF self.cape > 500 THEN
        StakeholderRisk("General Aviation (VFR)", "MODERATE", TRUE,
            Fmt("Moderate CAPE (", self.cape, " J/kg). Convection possible."),
            <<"File VFR flight plan", "Monitor weather radar", "Maintain VMC",
              "Have alternate routes">>)
    ELSE
        StakeholderRisk("General Aviation (VFR)", "LOW", TRUE,
            Fmt("Low CAPE (", self.cape, " J/kg). Good VFR conditions."),
            <<"Standard VFR operations", "Monitor METAR/TAF">>)

\* mutant: the NO-GO test written with 2500
assess_general_aviation_2500(self) ==
    IF self.cape > 2500 THEN
        StakeholderRisk("General Aviation (VFR)", "HIGH", FALSE,
            Fmt("High CAPE (", self.cape,
                " J/kg). Embedded thunderstorms likely."),
            <<"IFR flight plan", "Storm avoidance equipment required",
              "20nm storm clearance", "Consider delaying flight">>)
    ELSE IF self.cape > 500 THEN
        StakeholderRisk("General Aviation (VFR)", "MODERATE", TRUE,
            Fmt("Moderate CAPE (", self.cape, " J/kg). Convection possible."),
            <<"File VFR flight plan", "Monitor weather radar", "Maintain VMC",
              "Have alternate routes">>)
    ELSE
        StakeholderRisk("General Aviation (VFR)", "LOW", TRUE,
            Fmt("Low CAPE (", self.cape, " J/kg). Good VFR conditions."),
            <<"Standard VFR operations", "Monitor METAR/TAF">>)

assess_general_aviation(self) ==
    IF self.cape > 1500 THEN
        StakeholderRisk("General Aviation (VFR)", "HIGH", FALSE,
            Fmt("High CAPE (", self.cape,
                " J/kg). Embedded thunderstorms likely."),
            <<"IFR flight plan", "Storm avoidance equipment required",
              "20nm storm clearance", "Consider delaying flight">>)
    ELSE IF self.cape > 500 THEN
        StakeholderRisk("General Aviation (VFR)", "MODERATE", TRUE,
            Fmt("Moderate CAPE (", self.cape, " J/kg). Convection possible."),
            <<"File VFR flight plan", "Monitor weather radar", "Maintain VMC",
              "Have alternate routes">>)
    ELSE
        StakeholderRisk("General Aviation (VFR)", "LOW", TRUE,
            Fmt("Low CAPE (", self.cape, " J/kg). Good VFR conditions."),
            <<"Standard VFR operations", "Monitor METAR/TAF">>)

\* mutant: the hang gliding entry filled by the paragliding assessment
assess_all_pg_twice(self) ==
    [general_risk |-> assess_general_risk(self),
     convective_potential |-> classify_convective_potential(self),
     paragliding |-> assess_paragliding(self),
     hang_gliding |-> assess_paragliding(self),
     hot_air_balloon |-> assess_hot_air_balloon(self),
     gliding |-> assess_gliding(self),
     general_aviation |-> assess_general_aviation(self)]

\* RiskAssessment (dataclass), as built by RiskAssessor.assess_all
assess_all(self) ==
    [general_risk |-> assess_general_risk(self),
     convective_potential |-> classify_convective_potential(self),
     paragliding |-> assess_paragliding(self),
     hang_gliding |-> assess_hang_gliding(self),
     hot_air_balloon |-> assess_hot_air_balloon(self),
     gliding |-> assess_gliding(self),
     general_aviation |-> assess_general_aviation(self)]

\* RiskLevel.color
color(level) ==
    CASE level = "EXTREME" -> "#8B0000"
      [] level = "HIGH" -> "#FF0000"
      [] level = "MODERATE" -> "#FFA500"
      [] level = "LOW" -> "#FFFF00"
      [] level = "MINIMAL" -> "#00FF00"

\* StakeholderRisk.to_dict
StakeholderRisk_to_dict(self) ==
    [activity |-> self.activity,
     risk_level |-> self.risk_level,
     risk_color |-> color(self.risk_level),
     go_no_go |-> IF self.go_no_go THEN "GO" ELSE "NO-GO",
     reasoning |-> self.reasoning,
     precautions |-> self.precautions]

\* RiskAssessment.to_dict
RiskAssessment_to_dict(self) ==
    [general_risk |-> self.general_risk,
     general_risk_color |-> color(self.general_risk),
     convective_potential |-> self.convective_potential,
     stakeholders |->
        [paragliding |-> StakeholderRisk_to_dict(self.paragliding),
         hang_gliding |-> StakeholderRisk_to_dict(self.hang_gliding),
         hot_air_balloon |-> StakeholderRisk_to_dict(self.hot_air_balloon),
         gliding |-> StakeholderRisk_to_dict(self.gliding),
         general_aviation |-> StakeholderRisk_to_dict(self.general_aviation)]]

\* quick_risk_assessment: a minimal ConvectiveIndices without LFC, EL and
\* parcel profile, an assessor over it, and the assessment as a dictionary
quick_risk_assessment(cape, cin) ==
    RiskAssessment_to_dict(
        assess_all(RiskAssessor(ConvectiveIndices(cape, cin, FALSE, FALSE))))

(***************************************************************************)
(* The sounding, its validator and the engine (src/convective_engine.py   *)
(* and src/data_loader.py).  Pressures are whole hPa.  Temperatures and    *)
(* dewpoints are in sixteenths of a degree: such values are binary         *)
(* fractions, so the floats of the program hold them exactly, their        *)
(* differences are exact, and the comparisons and the rounding of the      *)
(* validator are those of the floats.                                      *)
(***************************************************************************)
\* an exception leaving a call
Raised(kind) == [raised |-> kind]
IsRaised(x) == DOMAIN x = {"raised"}

\* float('nan'), as a value no pressure or temperature takes
NaN == 0 - 999999
isnan(x) == x = NaN

\* float arithmetic and comparisons: NaN makes a difference NaN and every
\* comparison false
minus(x, y) == IF isnan(x) \/ isnan(y) THEN NaN ELSE x - y
less(x, y) == ~isnan(x) /\ ~isnan(y) /\ x < y
greater(x, y) == ~isnan(x) /\ ~isnan(y) /\ x > y

\* a temperature given in degrees, and 0.1 degree against a difference d:
\* d / 16 < 0.1 for the float nearest to 0.1, which lies above 0.1
SixteenthsPerDegree == 16
Degrees(d) == d * SixteenthsPerDegree
BelowTenth(d) == ~isnan(d) /\ d * 10 < SixteenthsPerDegree

\* mutant: __post_init__ comparing only the temperature length
SoundingData_dewpoint_unchecked(pressure, temperature, dewpoint) ==
    IF Len(temperature) # Len(pressure)
    THEN Raised("ValueError")
    ELSE [pressure |-> pressure, temperature |-> temperature,
          dewpoint |-> dewpoint, height |-> None,
          wind_direction |-> None, wind_speed |-> None]

\* SoundingData (dataclass) with its __post_init__ length check, the
\* optional arrays left at their default
SoundingData(pressure, temperature, dewpoint) ==
    IF Len(temperature) # Len(pressure) \/ Len(dewpoint) # Len(pressure)
    THEN Raised("ValueError")
    ELSE [pressure |-> pressure, temperature |-> temperature,
          dewpoint |-> dewpoint, height |-> None,
          wind_direction |-> None, wind_speed |-> None]

\* SoundingData(..., height=, wind_direction=, wind_speed=): the optional
\* arrays are stored as given and are not part of the length check
SoundingData_with(pressure, temperature, dewpoint, height, wind_direction, wind_speed) ==
    LET s == SoundingData(pressure, temperature, dewpoint)
    IN  IF IsRaised(s) THEN s
        ELSE [s EXCEPT !.height = height, !.wind_direction = wind_direction,
                       !.wind_speed = wind_speed]

\* the point counts of SoundingValidator.validate
MinPoints == 10
RecommendedPoints == 20

\* how many levels beyond MinPoints the input soundings reach
ExtraLevels == 1

Lengths == {0, 1, 2, MinPoints - 1} \cup (MinPoints..(MinPoints + ExtraLevels))

\* input arrays: a pressure column falling 75 hPa per level from 1000 hPa,
\* a temperature column falling 5 degrees per level from 20 degrees, and a
\* dewpoint column 8 degrees below it, each with the defects named.  The
\* near-saturated dewpoint is 0.0625 degree below the temperature, the
\* almost near-saturated one 0.125 degree, the very dry one 30.25 degrees
PressureShapes == {"decreasing", "swapped", "repeated", "nonpositive"}
DewpointShapes == {"dry", "saturated", "near_saturated",
                   "almost_near_saturated", "very_dry", "above_aloft",
                   "above_at_surface", "short"}

BasePressure(n) == [i \in 1..n |-> 1000 - 75 * (i - 1)]

InputPressure(n, shape) ==
    LET base == BasePressure(n)
    IN  CASE shape = "swapped" /\ n >= 3 ->
                [base EXCEPT ![2] = base[3], ![3] = base[2]]
          [] shape = "swapped" /\ n = 2 ->
                [base EXCEPT ![1] = base[2], ![2] = base[1]]
          [] shape = "repeated" /\ n >= 2 -> [base EXCEPT ![2] = base[1]]
          [] shape = "nonpositive" /\ n >= 1 -> [base EXCEPT ![n] = 0]
          [] OTHER -> base

InputTemperature(n) == [i \in 1..n |-> Degrees(20) - Degrees(5) * (i - 1)]

InputDewpoint(n, shape) ==
    LET t == InputTemperature(n)
        dry == [i \in 1..n |-> t[i] - Degrees(8)]
    IN  CASE shape = "saturated" -> t
          [] shape = "near_saturated" /\ n >= 1 -> [dry EXCEPT ![n] = t[n] - 1]
          [] shape = "almost_near_saturated" /\ n >= 1 ->
                [dry EXCEPT ![n] = t[n] - 2]
          [] shape = "very_dry" -> [i \in 1..n |-> t[i] - (Degrees(30) + 4)]
          [] shape = "above_aloft" /\ n >= 2 ->
                [dry EXCEPT ![2] = t[2] + Degrees(1)]
          [] shape = "above_at_surface" /\ n >= 1 ->
                [dry EXCEPT ![1] = t[1] + Degrees(1)]
          [] shape = "short" /\ n >= 1 -> SubSeq(dry, 1, n - 1)
          [] OTHER -> dry

\* the temperature column handed over: of the length of the pressure column
\* or one level longer
TemperatureShapes == {"full", "long"}

InputTemperatureColumn(n, shape) ==
    IF shape = "long" THEN InputTemperature(n + 1) ELSE InputTemperature(n)

\* the pressure, temperature and dewpoint arrays a caller may hold
InputArrays ==
    {[pressure |-> InputPressure(n, ps),
      temperature |-> InputTemperatureColumn(n, ts),
      dewpoint |-> InputDewpoint(n, ds)] :
        n \in Lengths, ps \in PressureShapes, ts \in TemperatureShapes,
        ds \in DewpointShapes}

\* SoundingLoader.from_arrays
from_arrays(pressure, temperature, dewpoint) ==
    SoundingData(pressure, temperature, dewpoint)

(***************************************************************************)
(* The loaders that read a table.  A DataFrame is its set of column names  *)
(* and its rows, a missing cell being NaN.  A text is the sequence of its  *)
(* lines: the title, a rule of dashes, the line of names (PRES HGHT ...),  *)
(* the line of units (hPa m C ...) and the data lines, each data line with *)
(* the number of blanks it begins with and the row of values it holds.  A  *)
(* file is "csv" with the frame read_csv delivers for it, "wyoming" with   *)
(* its lines, or "missing" when there is no such file.  Every file is read *)
(* by the parser of its kind, except that auto_detect gives a Wyoming file *)
(* with the suffix .txt to read_csv first.  pandas is not part of this     *)
(* repository: what read_fwf makes of lines that are not one aligned table *)
(* of numbers is an answer that comes with the text, any of                *)
(* PandasOutcomes.  The application writes an uploaded file to             *)
(* /tmp/<its name> and loads it from there; tmp holds the files of /tmp.   *)
(***************************************************************************)
\* df.dropna(subset=subset, how=how).reset_index(drop=True)
dropna(df, subset, how) ==
    LET Kept(row) ==
            IF how = "all" THEN \E c \in subset : ~isnan(row[c])
            ELSE \A c \in subset : ~isnan(row[c])
    IN  [df EXCEPT !.rows = SelectSeq(df.rows, Kept)]

\* df[c].values
column(df, c) == [i \in 1..Len(df.rows) |-> df.rows[i][c]]

\* df[c].values if c in df.columns else None
column_if_present(df, c) ==
    IF c \in df.columns THEN Some(column(df, c)) ELSE None

WyomingColumns ==
    {"pressure", "height", "temperature", "dewpoint", "direction", "speed"}
RequiredColumns == {"pressure", "temperature", "dewpoint"}

\* a frame without columns or rows
NoFrame == [columns |-> {}, rows |-> << >>]

\* a file that pandas.read_fwf is not asked about
NoPandas == [skipped |-> NoFrame, text |-> NoFrame]

\* pd.read_csv(file_path): the text of a Wyoming file has no commas and
\* makes a frame with none of the required columns; a file without a line
\* has no columns to parse
read_csv(file) ==
    IF file.kind = "missing" THEN Raised("FileNotFoundError")
    ELSE IF file.kind = "empty" THEN Raised("EmptyDataError")
    ELSE IF file.kind = "csv" THEN file.frame
    ELSE NoFrame

\* a cell that holds text: the column is then one of strings
Text == 0 - 888888

\* the row of a line that holds no values
NoRow == [c \in WyomingColumns |-> NaN]

\* a line of a text
TextLine(kind, indent, row) == [kind |-> kind, indent |-> indent, row |-> row]

\* the lines form one table of numbers: data lines only, all laid out alike
Aligned(lines) ==
    \A i \in 1..Len(lines) :
        lines[i].kind = "data" /\ lines[i].indent = lines[1].indent

\* the table with a row for every line: the values of a data line, text in
\* every cell of another line
Table(lines) ==
    [columns |-> WyomingColumns,
     rows |-> [i \in 1..Len(lines) |->
                IF lines[i].kind = "data" THEN lines[i].row
                ELSE [c \in WyomingColumns |-> Text]]]

\* the table with nothing read from the lines that are not data lines
Blanked(lines) ==
    [columns |-> WyomingColumns,
     rows |-> [i \in 1..Len(lines) |-> lines[i].row]]

\* a table read with the fields right of the height one column off
Misread(lines) ==
    [columns |-> WyomingColumns,
     rows |-> [i \in 1..Len(lines) |->
                [pressure |-> lines[i].row.pressure,
                 height |-> lines[i].row.height,
                 temperature |-> lines[i].row.dewpoint,
                 dewpoint |-> NaN,
                 direction |-> lines[i].row.speed,
                 speed |-> NaN]]]

\* what pandas.read_fwf may answer for lines with usecols=[0, 1, 2, 3, 6, 7]:
\* the table when the lines are aligned; otherwise the table all the same,
\* with text where a line is not a data line or with nothing read from such
\* a line, or columns inferred that are not those of the levels, or a
\* failure
PandasOutcomes(lines) ==
    IF Aligned(lines) THEN {Table(lines)}
    ELSE {Table(lines), Blanked(lines), Misread(lines),
          Raised("ParserError"), Raised("ValueError")}

\* pd.read_fwf(..., usecols=..., names=...) of lines, pd being the answer of
\* pandas for them
read_fwf(lines, pd) ==
    IF Len(lines) = 0 THEN Raised("EmptyDataError")
    ELSE pd

\* the SoundingData the two Wyoming loaders build from the frame read: rows
\* are dropped only when temperature and dewpoint are both missing
sounding_of_wyoming_frame(frame) ==
    LET df == dropna(frame, {"temperature", "dewpoint"}, "all")
    IN  SoundingData_with(column(df, "pressure"), column(df, "temperature"),
                          column(df, "dewpoint"),
                          column_if_present(df, "height"),
                          column_if_present(df, "direction"),
                          column_if_present(df, "speed"))

\* the lines pd.read_fwf(file_path, skiprows=5) reads
SkipRows == 5
skiprows(lines) == SubSeq(lines, SkipRows + 1, Len(lines))

\* SoundingLoader.from_wyoming
from_wyoming(file) ==
    IF file.kind = "missing" THEN Raised("FileNotFoundError")
    ELSE LET df == read_fwf(skiprows(file.lines), file.pandas.skipped)
         IN  IF IsRaised(df) THEN df ELSE sounding_of_wyoming_frame(df)

\* text_content.strip().split('\n'): the first line loses its leading blanks
strip_split(lines) ==
    IF Len(lines) = 0 THEN lines ELSE [lines EXCEPT ![1].indent = 0]

\* 'PRES' in line or 'hPa' in line
HasHeaderWord(line) == line.kind \in {"names", "units"}

\* line.strip()[0].isdigit(): a data line, and the title, which begins with
\* the station number
StartsWithDigit(line) == line.kind \in {"title", "data"}

\* the index (from 0) from_wyoming_text takes for the first data line: the
\* line after the first one that holds PRES or hPa, else the first line
\* that begins with a digit, else 0
data_start(lines) ==
    LET First(S) == CHOOSE i \in S : \A j \in S : i <= j
        header == {i \in 1..Len(lines) : HasHeaderWord(lines[i])}
        digits == {i \in 1..Len(lines) : StartsWithDigit(lines[i])}
    IN  IF header # {} THEN First(header)
        ELSE IF digits # {} THEN First(digits) - 1
        ELSE 0

\* lines[data_start:] of the stripped text
data_lines(text_content) ==
    LET lines == strip_split(text_content)
    IN  SubSeq(lines, data_start(lines) + 1, Len(lines))

\* SoundingLoader.from_wyoming_text
from_wyoming_text(text_content, pd) ==
    LET df == read_fwf(data_lines(text_content), pd)
    IN  IF IsRaised(df) THEN df ELSE sounding_of_wyoming_frame(df)

\* SoundingLoader.from_dataframe with the default column names
from_dataframe(frame) ==
    IF ~(RequiredColumns \subseteq frame.columns) THEN Raised("ValueError")
    ELSE LET df == dropna(frame, RequiredColumns, "any")
         IN  SoundingData_with(column(df, "pressure"),
                               column(df, "temperature"),
                               column(df, "dewpoint"),
                               column_if_present(df, "height"),
                               column_if_present(df, "direction"),
                               column_if_present(df, "speed"))

\* SoundingLoader.from_csv with the default column names
from_csv(file) ==
    LET read == read_csv(file)
    IN  IF IsRaised(read) THEN read
        ELSE IF ~(RequiredColumns \subseteq read.columns)
        THEN Raised("ValueError")
        ELSE LET df == dropna(read, RequiredColumns, "any")
             IN  SoundingData_with(column(df, "pressure"),
                                   column(df, "temperature"),
                                   column(df, "dewpoint"),
                                   column_if_present(df, "height"),
                                   column_if_present(df, "direction"),
                                   column_if_present(df, "speed"))

\* SoundingLoader.auto_detect: from_csv for .csv and .txt, then
\* from_wyoming, then from_wyoming_text, each exception swallowed
auto_detect(file) ==
    LET csv == IF file.suffix \in {".csv", ".txt"} THEN from_csv(file)
               ELSE Raised("skipped")
        wyoming == from_wyoming(file)
        text == IF file.kind = "missing" THEN Raised("FileNotFoundError")
                ELSE from_wyoming_text(file.lines, file.pandas.text)
    IN  IF ~IsRaised(csv) THEN csv
        ELSE IF ~IsRaised(wyoming) THEN wyoming
        ELSE IF ~IsRaised(text) THEN text
        ELSE Raised("ValueError")

\* the files of data/: the repository has none
DataFile(path) ==
    [suffix |-> ".txt", kind |-> "missing", frame |-> NoFrame,
     lines |-> << >>, pandas |-> NoPandas]

\* an array given in half degrees
HalfDegrees(a) == [i \in 1..Len(a) |-> a[i] * (SixteenthsPerDegree \div 2)]

\* load_example_sounding(risk_level): the Wyoming file of the level when it
\* can be read, else the synthetic sounding of the level, its temperatures
\* and dewpoints written here in half degrees
load_example_sounding(risk_level) ==
    LET filepath ==
            CASE risk_level = "low" -> "data/low_risk_example.txt"
              [] risk_level = "high" -> "data/high_risk_example.txt"
              [] OTHER -> "data/moderate_risk_example.txt"
        loaded == from_wyoming(DataFile(filepath))
        LowRiskPressure ==
            <<1013, 1000, 975, 950, 925, 900, 850, 800, 750, 700, 650, 600, 550,
              500, 450, 400, 350, 300, 250, 200>>
        LowRiskTemperature ==
            <<20, 18, 14, 10, 6, 2, -4, -10, -16, -22, -28, -35, -42, -50, -59,
              -69, -80, -93, -108, -124>>
        LowRiskDewpoint ==
            <<-10, -11, -12, -13, -14, -16, -20, -24, -28, -32, -37, -43, -50, -58,
              -67, -77, -88, -101, -116, -132>>
        UnstablePressure ==
            <<1000, 975, 950, 925, 900, 850, 800, 750, 700, 650, 600, 550, 500,
              450, 400, 350, 300, 250, 200>>
        ModerateRiskTemperature ==
            <<52, 48, 44, 40, 36, 28, 20, 12, 4, -4, -12, -21, -30, -40, -51, -63,
              -77, -93, -111>>
        ModerateRiskDewpoint ==
            <<36, 34, 32, 30, 28, 22, 16, 8, 0, -8, -18, -29, -40, -52, -65, -79,
              -95, -113, -133>>
        HighRiskTemperature ==
            <<56, 52, 48, 44, 40, 32, 24, 16, 8, 0, -8, -16, -24, -34, -44, -56,
              -70, -88, -108>>
        HighRiskDewpoint ==
            <<44, 40, 36, 32, 28, 20, 12, 4, -4, -12, -20, -28, -36, -46, -56, -68,
              -82, -100, -120>>
    IN  IF ~IsRaised(loaded) THEN loaded
        ELSE IF risk_level = "low" THEN
            SoundingData(LowRiskPressure, HalfDegrees(LowRiskTemperature),
                         HalfDegrees(LowRiskDewpoint))
        ELSE IF risk_level = "moderate" THEN
            SoundingData(UnstablePressure, HalfDegrees(ModerateRiskTemperature),
                         HalfDegrees(ModerateRiskDewpoint))
        ELSE
            SoundingData(UnstablePressure, HalfDegrees(HighRiskTemperature),
                         HalfDegrees(HighRiskDewpoint))

\* the tables a caller may hold: the columns of the input arrays, with a
\* height, a wind direction and a wind speed, and with cells missing in the
\* third row
MissingCells ==
    {{}, {"dewpoint"}, {"temperature"}, {"temperature", "dewpoint"},
     {"pressure"}}

TableLengths == MinPoints..(MinPoints + ExtraLevels)

InputRow(n, i, missing) ==
    LET row == [pressure |-> BasePressure(n)[i], height |-> 100 * i,
                temperature |-> InputTemperature(n)[i],
                dewpoint |-> InputDewpoint(n, "dry")[i],
                direction |-> 270, speed |-> 10]
    IN  [c \in WyomingColumns |->
            IF i = 3 /\ c \in missing THEN NaN ELSE row[c]]

\* the frame of n rows restricted to the columns cols
InputFrame(n, missing, cols) ==
    [columns |-> cols,
     rows |-> [i \in 1..n |->
                [c \in cols |-> InputRow(n, i, missing)[c]]]]

WyomingFrames ==
    {InputFrame(n, m, WyomingColumns) : n \in TableLengths, m \in MissingCells}

CsvFrames ==
    {InputFrame(n, m, RequiredColumns) : n \in TableLengths, m \in MissingCells}
    \cup {InputFrame(n, {}, cols) :
            n \in TableLengths,
            cols \in {WyomingColumns, {"pressure", "temperature"}}}

\* the lines of a table, every data line beginning with indent blanks
DataLines(frame, indent) ==
    [i \in 1..Len(frame.rows) |-> TextLine("data", indent, frame.rows[i])]

\* the header of a text list as the University of Wyoming serves it
ServedHeader ==
    <<TextLine("title", 0, NoRow), TextLine("rule", 0, NoRow),
      TextLine("names", 5, NoRow), TextLine("units", 6, NoRow),
      TextLine("rule", 0, NoRow)>>

\* the texts a caller may hold: a list as served; the names line alone, with
\* data and without; data lines only, beginning with a digit or with blanks;
\* a title over the data lines
TextLayouts == {"served", "names", "bare", "indented", "titled"}

InputText(layout, frame) ==
    CASE layout = "served" -> ServedHeader \o DataLines(frame, 1)
      [] layout = "names" -> <<TextLine("names", 5, NoRow)>> \o DataLines(frame, 1)
      [] layout = "bare" -> DataLines(frame, 0)
      [] layout = "indented" -> DataLines(frame, 1)
      [] layout = "titled" -> <<TextLine("title", 0, NoRow)>> \o DataLines(frame, 1)

InputTexts ==
    {InputText(l, f) : l \in TextLayouts, f \in WyomingFrames}
    \cup {<<TextLine("names", 5, NoRow)>>}

\* no file at the path
MissingFile ==
    [suffix |-> ".txt", kind |-> "missing", frame |-> NoFrame,
     lines |-> << >>, pandas |-> NoPandas]

\* a file opened for writing, nothing written yet
EmptyFile ==
    [suffix |-> "", kind |-> "empty", frame |-> NoFrame,
     lines |-> << >>, pandas |-> NoPandas]

\* the files of a served list, with what pandas answers for the lines after
\* the five skipped and for the lines the header scan leaves
WyomingFiles ==
    UNION {{[suffix |-> x, kind |-> "wyoming", frame |-> NoFrame,
             lines |-> InputText("served", f),
             pandas |-> [skipped |-> a, text |-> b]] :
                x \in {".txt", ".dat"},
                a \in PandasOutcomes(skiprows(InputText("served", f))),
                b \in PandasOutcomes(data_lines(InputText("served", f)))} :
           f \in WyomingFrames}
CsvFiles ==
    {[suffix |-> ".csv", kind |-> "csv", frame |-> f, lines |-> << >>,
      pandas |-> NoPandas] : f \in CsvFrames}

\* the text files a user may upload, with what pandas answers for the lines
\* the header scan leaves
TextFiles ==
    UNION {{[suffix |-> ".txt", kind |-> "wyoming", frame |-> NoFrame,
             lines |-> t, pandas |-> [skipped |-> NoFrame, text |-> a]] :
                a \in PandasOutcomes(data_lines(t))} :
           t \in InputTexts}

\* the names uploaded files carry; uploaded_file.name.endswith('.csv')
UploadNames == {"sounding.csv", "data.csv", "sounding.txt"}
EndsWithCsv(name) == name \in {"sounding.csv", "data.csv"}

\* an uploaded file under a name of its kind
Uploads(files) ==
    {u \in [name : UploadNames, file : files] :
        EndsWithCsv(u.name) <=> u.file.suffix = ".csv"}

\* main: f.write(uploaded_file.read()) and the close that ends the with
\* block: the bytes of the upload are laid from the start of the file over
\* what it holds by then, and nothing cuts the file again, so what a held
\* file has beyond the length of the upload stays.  Files are held line by
\* line; the uploads of one name agree on the lines they share, so what
\* stays begins at a line.
Overwritten(held, written) ==
    LET Rest(old, new) == SubSeq(old, Len(new) + 1, Len(old))
        rows == written.frame.rows \o Rest(held.frame.rows, written.frame.rows)
        lines == written.lines \o Rest(held.lines, written.lines)
    IN  IF held.kind = "empty" THEN written
        ELSE IF written.kind = "csv"
        THEN [written EXCEPT !.frame.rows = rows]
        ELSE [written EXCEPT
                !.lines = lines,
                !.pandas.text = IF lines = written.lines THEN @
                                ELSE IF lines = held.lines
                                THEN held.pandas.text
                                ELSE Table(data_lines(lines))]

\* /tmp with no uploaded file in it
NoUploads == [nm \in UploadNames |-> MissingFile]

\* main, the upload branch once the file is written: from_csv(temp_path)
\* for a name ending in .csv, else from_wyoming_text of the content read
\* back
load_upload(name, file) ==
    IF EndsWithCsv(name) THEN from_csv(file)
    ELSE IF file.kind = "missing" THEN Raised("FileNotFoundError")
    ELSE from_wyoming_text(file.lines, file.pandas.text)

RiskLevelNames == {"low", "moderate", "high", "severe"}

\* a loader and its argument
InputSources ==
    {[loader |-> "from_wyoming", arg |-> f] :
        f \in {f \in WyomingFiles : f.suffix = ".txt"} \cup {MissingFile}}
    \cup {[loader |-> "upload", arg |-> u] :
            u \in Uploads(CsvFiles \cup TextFiles)}
    \cup {[loader |-> "from_dataframe", arg |-> f] : f \in CsvFrames}
    \cup {[loader |-> "auto_detect", arg |-> f] :
            f \in {f \in CsvFiles : RequiredColumns \subseteq f.frame.columns}
                  \cup WyomingFiles \cup {MissingFile}}
    \cup {[loader |-> "load_example_sounding", arg |-> r] : r \in RiskLevelNames}

\* what the loader of a source returns or raises
Load(src) ==
    CASE src.loader = "from_wyoming" -> from_wyoming(src.arg)
      [] src.loader = "upload" -> load_upload(src.arg.name, src.arg.file)
      [] src.loader = "from_dataframe" -> from_dataframe(src.arg)
      [] src.loader = "auto_detect" -> auto_detect(src.arg)
      [] src.loader = "load_example_sounding" -> load_example_sounding(src.arg)

\* numpy reductions over a non-empty array: NaN when an element is NaN
RECURSIVE ArrayMin(_)
ArrayMin(a) ==
    IF Len(a) = 1 THEN a[1]
    ELSE LET m == ArrayMin(Tail(a))
         IN  IF isnan(a[1]) \/ isnan(m) THEN NaN
             ELSE IF a[1] < m THEN a[1] ELSE m

RECURSIVE ArrayMax(_)
ArrayMax(a) ==
    IF Len(a) = 1 THEN a[1]
    ELSE LET m == ArrayMax(Tail(a))
         IN  IF isnan(a[1]) \/ isnan(m) THEN NaN
             ELSE IF a[1] > m THEN a[1] ELSE m

\* a validator message: an f-string with its formatted values, or plain text
Msg(pre, values, post) == [pre |-> pre, values |-> values, post |-> post]

\* "{x:.1f}" of a temperature difference x held in sixteenths: the tenths
\* nearest to the exact value x / 16, the even one of two equally near
OneDecimal(x) ==
    LET q == (x * 10) \div SixteenthsPerDegree
        r == (x * 10) % SixteenthsPerDegree
    IN  IF r * 2 > SixteenthsPerDegree THEN q + 1
        ELSE IF r * 2 < SixteenthsPerDegree THEN q
        ELSE IF q % 2 = 0 THEN q ELSE q + 1

\* a column of the sounding holds strings
HasText(snd) ==
    \E a \in {snd.pressure, snd.temperature, snd.dewpoint} :
        \E i \in 1..Len(a) : a[i] = Text

\* the list a followed by the message m when cond holds
AppendIf(a, cond, m) == IF cond THEN Append(a, m) ELSE a

\* SoundingValidator.validate.  On an empty sounding pressure.min() raises
\* ValueError (a reduction over a zero-size array); on columns of strings
\* the comparisons and differences raise TypeError.  The degree sign of the
\* dry-layer warning is left out of its text.
validate(snd) ==
    LET n_points == Len(snd.pressure)
    IN  IF n_points = 0 THEN Raised("ValueError")
        ELSE IF HasText(snd) THEN Raised("TypeError")
        ELSE
        LET p_min == ArrayMin(snd.pressure)
            p_max == ArrayMax(snd.pressure)
            n_inversions ==
                Cardinality({i \in 1..(n_points - 1) :
                    greater(minus(snd.temperature[i + 1],
                                  snd.temperature[i]), 0)})
            depression == [i \in 1..n_points |->
                                minus(snd.temperature[i], snd.dewpoint[i])]
            max_depression == ArrayMax(depression)
            errors0 == AppendIf(<< >>, n_points < MinPoints,
                            Msg("Insufficient data points: ", <<n_points>>,
                                " (minimum 10 required)"))
            warnings0 == AppendIf(<< >>,
                            n_points >= MinPoints /\ n_points < RecommendedPoints,
                            Msg("Limited data points: ", <<n_points>>,
                                " (20+ recommended)"))
            warnings1 == AppendIf(warnings0, less(p_max, 900),
                            Msg("Missing surface data? Max pressure: ",
                                <<p_max>>, " hPa"))
            warnings2 == AppendIf(warnings1, greater(p_min, 300),
                            Msg("Limited upper air data? Min pressure: ",
                                <<p_min>>, " hPa"))
            warnings3 == AppendIf(warnings2, n_inversions > 0,
                            Msg("Temperature inversion detected (",
                                <<n_inversions>>, " layers)"))
            errors == AppendIf(errors0,
                            \E i \in 1..n_points : less(depression[i], 0),
                            Msg("Invalid data: dewpoint > temperature", << >>, ""))
            warnings4 == AppendIf(warnings3, greater(max_depression, Degrees(30)),
                            Msg("Very dry layer detected (depression: ",
                                <<OneDecimal(max_depression)>>, " C)"))
            warnings == AppendIf(warnings4,
                            \E i \in 1..n_points : BelowTenth(depression[i]),
                            Msg("Near-saturated layer present (cloud/fog)",
                                << >>, ""))
            score0 == 100 - Len(warnings) * 10 - Len(errors) * 30
            quality_score == IF score0 < 0 THEN 0 ELSE score0
        IN  [valid |-> Len(errors) = 0,
             quality_score |-> quality_score,
             n_points |-> n_points,
             pressure_range |-> <<p_min, p_max>>,
             warnings |-> warnings,
             errors |-> errors]

(***************************************************************************)
(* The engine.  ConvectiveAnalyzer hands the arrays to the MetPy library   *)
(* (mpcalc.lcl, parcel_profile, lfc, el, cape_cin), which is not part of   *)
(* this repository.  Nothing is assumed about the library: each of its     *)
(* five calls is given an answer of the library, any of the answers below, *)
(* chosen anew at every call: the call raises; or it returns an LCL, a     *)
(* parcel profile in kelvin of some length, an LFC or an EL whose pressure *)
(* and temperature are each a number or NaN, a CAPE and a CIN.  Kelvin     *)
(* values are held in eightieths of a kelvin, in which both a sixteenth of *)
(* a degree and 273.15 are whole.                                          *)
(***************************************************************************)
\* pint's offset between degC and kelvin (273.15), in eightieths
EightiethsPerSixteenth == 5
KelvinOffset == 21852

\* an answer of a call of the library: the value it returns, or the
\* exception it raises
Returns(v) == [raises |-> "", value |-> v]
Raises(e) == [raises |-> e, value |-> << >>]

\* exceptions a call of the library may raise, of MetPy and of pint
LibraryErrors == {Raises("InvalidSoundingError"), Raises("DimensionalityError")}

\* a parcel profile of n entries, in kelvin
LibraryParcel(n) ==
    [i \in 1..n |->
        (Degrees(20) - Degrees(6) * (i - 1)) * EightiethsPerSixteenth
            + KelvinOffset]

\* what mpcalc.lcl(self.p[0], self.T[0], self.Td[0]) may answer
LclAnswers == {Returns(<<900, Degrees(10)>>)} \cup LibraryErrors

\* what mpcalc.parcel_profile(self.p, self.T[0], self.Td[0]) may answer for
\* n levels: a profile with an entry per level or with another number of
\* entries
ParcelProfileAnswers(n) ==
    {Returns(LibraryParcel(m)) : m \in {n, n - 1} \cap Nat} \cup LibraryErrors

\* what mpcalc.lfc(self.p, self.T, self.Td) may answer
LfcAnswers ==
    {Returns(v) : v \in {<<850, Degrees(5)>>, <<NaN, NaN>>, <<850, NaN>>}}
    \cup LibraryErrors

\* what mpcalc.el(self.p, self.T, self.Td) may answer
ElAnswers ==
    {Returns(v) : v \in {<<300, Degrees(0 - 40)>>, <<NaN, NaN>>}}
    \cup LibraryErrors

\* what mpcalc.cape_cin(self.p, self.T, self.Td, parcel_prof) may answer
CapeCinAnswers ==
    {Returns(v) : v \in {<<0, 0>>, <<1800, 0 - 20>>}} \cup LibraryErrors

\* a call of the library not made
NoAnswer == Returns(<< >>)
NoAnswers ==
    [lcl |-> NoAnswer, parcel_profile |-> NoAnswer, lfc |-> NoAnswer,
     el |-> NoAnswer, cape_cin |-> NoAnswer]

\* the answers of the library to the calls of one calculate_indices on n
\* levels: the five calls are made in turn, none after one that raises
LibraryAnswers(n) ==
    LET NoneRaised(mp) == \A f \in DOMAIN mp : mp[f].raises = ""
        lcl == {[NoAnswers EXCEPT !.lcl = a] : a \in LclAnswers}
        parcel_prof ==
            {[mp EXCEPT !.parcel_profile = a] :
                mp \in {m \in lcl : NoneRaised(m)},
                a \in ParcelProfileAnswers(n)}
        lfc == {[mp EXCEPT !.lfc = a] :
                mp \in {m \in parcel_prof : NoneRaised(m)}, a \in LfcAnswers}
        el == {[mp EXCEPT !.el = a] :
                mp \in {m \in lfc : NoneRaised(m)}, a \in ElAnswers}
        cape_cin == {[mp EXCEPT !.cape_cin = a] :
                mp \in {m \in el : NoneRaised(m)}, a \in CapeCinAnswers}
    IN  {mp \in lcl \cup parcel_prof \cup lfc \cup el : ~NoneRaised(mp)}
        \cup cape_cin

\* parcel_prof.to('degC').magnitude
to_degC(kelvin) ==
    [i \in 1..Len(kelvin) |->
        IF isnan(kelvin[i]) THEN NaN
        ELSE (kelvin[i] - KelvinOffset) \div EightiethsPerSixteenth]

\* ConvectiveAnalyzer.__init__ with _attach_units
ConvectiveAnalyzer(snd) ==
    [sounding |-> snd, p |-> snd.pressure,
     T |-> snd.temperature, Td |-> snd.dewpoint]

\* ConvectiveAnalyzer.calculate_indices, mp being what the library answers
\* to its five calls.  self.p[0] of an empty profile raises IndexError; the
\* first call of the library that raises ends the method with its
\* exception; there is no other check.  Each NaN of the LFC and the EL
\* becomes None on its own.
calculate_indices(self, mp) ==
    IF Len(self.p) = 0 THEN Raised("IndexError")
    ELSE IF mp.lcl.raises # "" THEN Raised(mp.lcl.raises)
    ELSE IF mp.parcel_profile.raises # "" THEN Raised(mp.parcel_profile.raises)
    ELSE IF mp.lfc.raises # "" THEN Raised(mp.lfc.raises)
    ELSE IF mp.el.raises # "" THEN Raised(mp.el.raises)
    ELSE IF mp.cape_cin.raises # "" THEN Raised(mp.cape_cin.raises)
    ELSE
    LET lcl == mp.lcl.value
        parcel_prof == mp.parcel_profile.value
        lfc == mp.lfc.value
        el == mp.el.value
        cape_cin == mp.cape_cin.value
    IN
    [cape |-> cape_cin[1], cin |-> cape_cin[2],
     lcl_pressure |-> lcl[1], lcl_temperature |-> lcl[2],
     lfc_pressure |-> IF ~isnan(lfc[1]) THEN Some(lfc[1]) ELSE None,
     lfc_temperature |-> IF ~isnan(lfc[2]) THEN Some(lfc[2]) ELSE None,
     el_pressure |-> IF ~isnan(el[1]) THEN Some(el[1]) ELSE None,
     el_temperature |-> IF ~isnan(el[2]) THEN Some(el[2]) ELSE None,
     surface_temperature |-> self.T[1],
     surface_dewpoint |-> self.Td[1],
     parcel_profile |-> to_degC(parcel_prof)]

\* quick_analysis: SoundingData, ConvectiveAnalyzer and calculate_indices in
\* one call, with no validation in between
quick_analysis(pressure, temperature, dewpoint, mp) ==
    LET snd == SoundingData(pressure, temperature, dewpoint)
    IN  IF IsRaised(snd) THEN snd
        ELSE calculate_indices(ConvectiveAnalyzer(snd), mp)

(***************************************************************************)
(* The state machine.  Either a ConvectiveIndices value is given (as       *)
(* quick_risk_assessment and callers of RiskAssessor give it), or arrays   *)
(* or a source are given and go the way of the application: a loader (an   *)
(* uploaded file is first written to /tmp and loaded from there),          *)
(* validate, ConvectiveAnalyzer only when the validation is valid,         *)
(* calculate_indices, RiskAssessor.  quick_analysis takes the arrays to    *)
(* the engine with no validation.  The methods of an object are called in  *)
(* any order, any number of times; calculate_indices is called until the   *)
(* assessor is made of its indices.  call names the operation that         *)
(* returned last, result is what it returned or raised.                    *)
(***************************************************************************)
NoAssessor == [constructed |-> FALSE]
NoResult == [returned |-> FALSE]
NoIndices == [computed |-> FALSE]
NoArrays == [given |-> FALSE]
NoSounding == [loaded |-> FALSE]
NoValidation == [validated |-> FALSE]
NoAnalyzer == [attached |-> FALSE]
NoSource == [chosen |-> FALSE]

\* no concurrent callers: one caller works on the objects above
NoPipelines == << >>

Init ==
    /\ \/ /\ indices \in InputIndices
          /\ arrays = NoArrays
          /\ source = NoSource
       \/ /\ indices = NoIndices
          /\ arrays \in InputArrays
          /\ source = NoSource
       \/ /\ indices = NoIndices
          /\ arrays = NoArrays
          /\ source \in InputSources
    /\ tmp = NoUploads
    /\ sounding = NoSounding
    /\ validation = NoValidation
    /\ analyzer = NoAnalyzer
    /\ assessor = NoAssessor
    /\ call = "none"
    /\ result = NoResult
    /\ pipelines = NoPipelines

\* SoundingLoader.from_arrays: the sounding, or the ValueError of
\* SoundingData.__post_init__ and no sounding
FromArrays ==
    /\ arrays # NoArrays
    /\ sounding = NoSounding
    /\ LET s == from_arrays(arrays.pressure, arrays.temperature, arrays.dewpoint)
       IN  /\ result' = s
           /\ sounding' = IF IsRaised(s) THEN sounding ELSE s
    /\ call' = "from_arrays"
    /\ UNCHANGED <<tmp, source, pipelines, indices, assessor, arrays,
                   validation, analyzer>>

\* load_example_sounding and auto_detect: SoundingLoader.from_wyoming(filepath):
\* the sounding, or the exception of the loader
FromWyoming ==
    /\ source # NoSource
    /\ source.loader = "from_wyoming"
    /\ sounding = NoSounding
    /\ LET s == from_wyoming(source.arg)
       IN  /\ result' = s
           /\ sounding' = IF IsRaised(s) THEN sounding ELSE s
    /\ call' = "from_wyoming"
    /\ UNCHANGED <<tmp, source, pipelines, indices, assessor, arrays,
                   validation, analyzer>>

\* main: with open(temp_path, 'wb') as f: the file of that name in /tmp is
\* made, or emptied
OpenUpload ==
    /\ source # NoSource
    /\ source.loader = "upload"
    /\ sounding = NoSounding
    /\ tmp[source.arg.name] = MissingFile
    /\ tmp' = [tmp EXCEPT ![source.arg.name] = EmptyFile]
    /\ call' = "open"
    /\ UNCHANGED <<source, pipelines, indices, assessor, arrays, sounding,
                   validation, analyzer, result>>

\* main: f.write(uploaded_file.read()), over the file just emptied
WriteUpload ==
    /\ source # NoSource
    /\ source.loader = "upload"
    /\ sounding = NoSounding
    /\ tmp[source.arg.name] = EmptyFile
    /\ tmp' = [tmp EXCEPT ![source.arg.name] = Overwritten(@, source.arg.file)]
    /\ call' = "write"
    /\ UNCHANGED <<source, pipelines, indices, assessor, arrays, sounding,
                   validation, analyzer, result>>

\* main: content = f.read() of the file written to /tmp, then
\* sounding = SoundingLoader.from_wyoming_text(content): the sounding, or
\* the exception, which main catches
FromWyomingText ==
    /\ source # NoSource
    /\ source.loader = "upload"
    /\ ~EndsWithCsv(source.arg.name)
    /\ tmp[source.arg.name] \notin {MissingFile, EmptyFile}
    /\ sounding = NoSounding
    /\ LET s == load_upload(source.arg.name, tmp[source.arg.name])
       IN  /\ result' = s
           /\ sounding' = IF IsRaised(s) THEN sounding ELSE s
    /\ call' = "from_wyoming_text"
    /\ UNCHANGED <<tmp, source, pipelines, indices, assessor, arrays,
                   validation, analyzer>>

\* main: sounding = SoundingLoader.from_csv(temp_path) of the file written
\* to /tmp: the sounding, or the exception, which main catches
FromCsv ==
    /\ source # NoSource
    /\ source.loader = "upload"
    /\ EndsWithCsv(source.arg.name)
    /\ tmp[source.arg.name] \notin {MissingFile, EmptyFile}
    /\ sounding = NoSounding
    /\ LET s == load_upload(source.arg.name, tmp[source.arg.name])
       IN  /\ result' = s
           /\ sounding' = IF IsRaised(s) THEN sounding ELSE s
    /\ call' = "from_csv"
    /\ UNCHANGED <<tmp, source, pipelines, indices, assessor, arrays,
                   validation, analyzer>>

\* SoundingLoader.from_dataframe(df) of a caller's table:
\* the sounding, or the exception of the loader
FromDataframe ==
    /\ source # NoSource
    /\ source.loader = "from_dataframe"
    /\ sounding = NoSounding
    /\ LET s == from_dataframe(source.arg)
       IN  /\ result' = s
           /\ sounding' = IF IsRaised(s) THEN sounding ELSE s
    /\ call' = "from_dataframe"
    /\ UNCHANGED <<tmp, source, pipelines, indices, assessor, arrays,
                   validation, analyzer>>

\* SoundingLoader.auto_detect(source) of a caller's file:
\* the sounding, or the exception of the loader
AutoDetect ==
    /\ source # NoSource
    /\ source.loader = "auto_detect"
    /\ sounding = NoSounding
    /\ LET s == auto_detect(source.arg)
       IN  /\ result' = s
           /\ sounding' = IF IsRaised(s) THEN sounding ELSE s
    /\ call' = "auto_detect"
    /\ UNCHANGED <<tmp, source, pipelines, indices, assessor, arrays,
                   validation, analyzer>>

\* main: sounding = load_example_sounding(), or with a risk level:
\* the sounding, or the exception of the loader
LoadExampleSounding ==
    /\ source # NoSource
    /\ source.loader = "load_example_sounding"
    /\ sounding = NoSounding
    /\ LET s == load_example_sounding(source.arg)
       IN  /\ result' = s
           /\ sounding' = IF IsRaised(s) THEN sounding ELSE s
    /\ call' = "load_example_sounding"
    /\ UNCHANGED <<tmp, source, pipelines, indices, assessor, arrays,
                   validation, analyzer>>

\* main: validation = validator.validate(sounding); when validate raises,
\* nothing is bound
Validate ==
    /\ sounding # NoSounding
    /\ validation = NoValidation
    /\ LET v == validate(sounding)
       IN  /\ result' = v
           /\ validation' = IF IsRaised(v) THEN validation ELSE v
    /\ call' = "validate"
    /\ UNCHANGED <<tmp, source, pipelines, indices, assessor, arrays, sounding,
                   analyzer>>

\* main: analyzer = ConvectiveAnalyzer(sounding), reached only when
\* validation['valid'] holds
AnalyzerInit ==
    /\ validation # NoValidation
    /\ validation.valid
    /\ analyzer = NoAnalyzer
    /\ analyzer' = ConvectiveAnalyzer(sounding)
    /\ call' = "ConvectiveAnalyzer"
    /\ UNCHANGED <<tmp, source, pipelines, indices, assessor, arrays, sounding,
                   validation, result>>

\* indices = analyzer.calculate_indices(), the library answering its calls
\* as it may
CalculateIndices ==
    /\ analyzer # NoAnalyzer
    /\ assessor = NoAssessor
    /\ \E mp \in LibraryAnswers(Len(analyzer.p)) :
        LET r == calculate_indices(analyzer, mp)
        IN  /\ result' = r
            /\ indices' = IF IsRaised(r) THEN indices ELSE r
    /\ call' = "calculate_indices"
    /\ UNCHANGED <<tmp, source, pipelines, assessor, arrays, sounding,
                   validation, analyzer>>

\* quick_analysis(pressure, temperature, dewpoint): its sounding and its
\* analyzer are its own
QuickAnalysis ==
    /\ arrays # NoArrays
    /\ sounding = NoSounding
    /\ \E mp \in LibraryAnswers(Len(arrays.pressure)) :
        result' = quick_analysis(arrays.pressure, arrays.temperature,
                                 arrays.dewpoint, mp)
    /\ call' = "quick_analysis"
    /\ UNCHANGED <<tmp, source, pipelines, indices, assessor, arrays, sounding,
                   validation, analyzer>>

\* assessor = RiskAssessor(indices)
Construct ==
    /\ indices # NoIndices
    /\ assessor = NoAssessor
    /\ assessor' = RiskAssessor(indices)
    /\ call' = "__init__"
    /\ UNCHANGED <<tmp, source, pipelines, indices, result, arrays, sounding,
                   validation, analyzer>>

Invoke(name, value) ==
    /\ assessor # NoAssessor
    /\ call' = name
    /\ result' = value
    /\ UNCHANGED <<tmp, source, pipelines, indices, assessor, arrays, sounding,
                   validation, analyzer>>

ClassifyConvectivePotential ==
    Invoke("classify_convective_potential", classify_convective_potential(assessor))

AssessGeneralRisk ==
    Invoke("assess_general_risk", assess_general_risk(assessor))

AssessParagliding ==
    Invoke("assess_paragliding", assess_paragliding(assessor))

AssessHangGliding ==
    Invoke("assess_hang_gliding", assess_hang_gliding(assessor))

AssessHotAirBalloon ==
    Invoke("assess_hot_air_balloon", assess_hot_air_balloon(assessor))

AssessGliding ==
    Invoke("assess_gliding", assess_gliding(assessor))

AssessGeneralAviation ==
    Invoke("assess_general_aviation", assess_general_aviation(assessor))

AssessAll ==
    Invoke("assess_all", assess_all(assessor))

\* quick_risk_assessment(cape, cin), for the CAPE and CIN of indices that
\* have, like the ones it builds, no LFC and no EL
QuickRiskAssessment ==
    /\ indices # NoIndices
    /\ indices = ConvectiveIndices(indices.cape, indices.cin, FALSE, FALSE)
    /\ result' = quick_risk_assessment(indices.cape, indices.cin)
    /\ call' = "quick_risk_assessment"
    /\ UNCHANGED <<tmp, source, pipelines, indices, assessor, arrays, sounding,
                   validation, analyzer>>

Next ==
    \/ FromArrays
    \/ FromWyoming
    \/ OpenUpload
    \/ WriteUpload
    \/ FromWyomingText
    \/ FromCsv
    \/ FromDataframe
    \/ AutoDetect
    \/ LoadExampleSounding
    \/ Validate
    \/ AnalyzerInit
    \/ CalculateIndices
    \/ QuickAnalysis
    \/ Construct
    \/ ClassifyConvectivePotential
    \/ AssessGeneralRisk
    \/ AssessParagliding
    \/ AssessHangGliding
    \/ AssessHotAirBalloon
    \/ AssessGliding
    \/ AssessGeneralAviation
    \/ AssessAll
    \/ QuickRiskAssessment

Spec == Init /\ [][Next]_vars

(***************************************************************************)
(* Concurrent callers.  Each caller is a session of the application with   *)
(* an input of its own: arrays entered by hand, or an uploaded file.  It   *)
(* runs main: from_arrays, or the upload written to /tmp/<its name> and    *)
(* loaded from there; validate; ConvectiveAnalyzer; the five calls of the  *)
(* library that calculate_indices makes, one step each; RiskAssessor;      *)
(* assess_all.  The steps of the callers interleave in any order.          *)
(* pipelines[k] holds the locals of caller k; tmp, the files of /tmp, is   *)
(* shared by all callers.  pc names the step a caller takes next; a caller *)
(* stops where main returns or an exception ends it.                       *)
(***************************************************************************)
Callers == {1, 2}

\* the files the callers upload: a csv file and a text file of n levels
PipelineCsv(n) ==
    [suffix |-> ".csv", kind |-> "csv",
     frame |-> InputFrame(n, {}, RequiredColumns),
     lines |-> << >>, pandas |-> NoPandas]

PipelineText(n) ==
    LET t == InputText("bare", InputFrame(n, {}, WyomingColumns))
    IN  [suffix |-> ".txt", kind |-> "wyoming", frame |-> NoFrame,
         lines |-> t,
         pandas |-> [skipped |-> NoFrame, text |-> Table(data_lines(t))]]

\* the inputs of the first caller: arrays entered by hand, of the minimum
\* of the validator, and a csv file and a text file of as many levels
FirstInputs ==
    {[method |-> "manual",
      arrays |-> [pressure |-> InputPressure(MinPoints, "decreasing"),
                  temperature |-> InputTemperature(MinPoints),
                  dewpoint |-> InputDewpoint(MinPoints, "dry")]],
     [method |-> "upload", name |-> "sounding.csv",
      file |-> PipelineCsv(MinPoints)],
     [method |-> "upload", name |-> "sounding.txt",
      file |-> PipelineText(MinPoints)]}

\* the inputs of the second caller: arrays with a dewpoint short of a level,
\* and files of a level more, named as the files of the first caller are or
\* otherwise
SecondInputs ==
    {[method |-> "manual",
      arrays |-> [pressure |-> InputPressure(MinPoints, "decreasing"),
                  temperature |-> InputTemperature(MinPoints),
                  dewpoint |-> InputDewpoint(MinPoints, "short")]],
     [method |-> "upload", name |-> "sounding.csv",
      file |-> PipelineCsv(MinPoints + 1)],
     [method |-> "upload", name |-> "data.csv",
      file |-> PipelineCsv(MinPoints + 1)],
     [method |-> "upload", name |-> "sounding.txt",
      file |-> PipelineText(MinPoints + 1)]}

\* a caller about to start on its input
NewPipeline(input) ==
    [input |-> input,
     pc |-> IF input.method = "manual" THEN "from_arrays" ELSE "open",
     sounding |-> NoSounding, validation |-> NoValidation,
     analyzer |-> NoAnalyzer, mp |-> NoAnswers, indices |-> NoIndices,
     assessor |-> NoAssessor, assessment |-> NoResult, error |-> None]

InitConcurrent ==
    /\ \E a \in FirstInputs, b \in SecondInputs :
            pipelines = [k \in Callers |->
                            NewPipeline(IF k = 1 THEN a ELSE b)]
    /\ tmp = NoUploads
    /\ indices = NoIndices
    /\ arrays = NoArrays
    /\ source = NoSource
    /\ sounding = NoSounding
    /\ validation = NoValidation
    /\ analyzer = NoAnalyzer
    /\ assessor = NoAssessor
    /\ call = "none"
    /\ result = NoResult

\* the caller k, stopped by the exception e
Stopped(k, e) == [pipelines[k] EXCEPT !.pc = "stopped", !.error = Some(e)]

\* sounding = SoundingLoader.from_arrays(pressure, temperature, dewpoint)
PipeFromArrays(k) ==
    /\ pipelines[k].pc = "from_arrays"
    /\ LET me == pipelines[k]
           s == from_arrays(me.input.arrays.pressure,
                            me.input.arrays.temperature,
                            me.input.arrays.dewpoint)
       IN  pipelines' = [pipelines EXCEPT ![k] =
                IF IsRaised(s) THEN Stopped(k, s)
                ELSE [me EXCEPT !.sounding = s, !.pc = "validate"]]
    /\ UNCHANGED <<tmp, source, indices, assessor, call, result, arrays,
                   sounding, validation, analyzer>>

\* with open(temp_path, 'wb') as f: the file of the uploaded name is made in
\* /tmp, or emptied, whoever wrote it
PipeOpenUpload(k) ==
    /\ pipelines[k].pc = "open"
    /\ tmp' = [tmp EXCEPT ![pipelines[k].input.name] = EmptyFile]
    /\ pipelines' = [pipelines EXCEPT ![k].pc = "write"]
    /\ UNCHANGED <<source, indices, assessor, call, result, arrays,
                   sounding, validation, analyzer>>

\* f.write(uploaded_file.read()), over what /tmp holds under the name by
\* now: nothing when no other caller wrote since this one opened the file
PipeWriteUpload(k) ==
    /\ pipelines[k].pc = "write"
    /\ tmp' = [tmp EXCEPT ![pipelines[k].input.name] =
                    Overwritten(@, pipelines[k].input.file)]
    /\ pipelines' = [pipelines EXCEPT ![k].pc = "load"]
    /\ UNCHANGED <<source, indices, assessor, call, result, arrays,
                   sounding, validation, analyzer>>

\* sounding = SoundingLoader.from_csv(temp_path), or from_wyoming_text of
\* the content read back: what /tmp holds under the name by now; main
\* catches the exception and goes on with no sounding
PipeLoadUpload(k) ==
    /\ pipelines[k].pc = "load"
    /\ LET me == pipelines[k]
           s == load_upload(me.input.name, tmp[me.input.name])
       IN  pipelines' = [pipelines EXCEPT ![k] =
                IF IsRaised(s) THEN Stopped(k, s)
                ELSE [me EXCEPT !.sounding = s, !.pc = "validate"]]
    /\ UNCHANGED <<tmp, source, indices, assessor, call, result, arrays,
                   sounding, validation, analyzer>>

\* validation = validator.validate(sounding); return unless valid
PipeValidate(k) ==
    /\ pipelines[k].pc = "validate"
    /\ LET me == pipelines[k]
           v == validate(me.sounding)
       IN  pipelines' = [pipelines EXCEPT ![k] =
                IF IsRaised(v) THEN Stopped(k, v)
                ELSE [me EXCEPT !.validation = v,
                                !.pc = IF v.valid THEN "ConvectiveAnalyzer"
                                       ELSE "stopped"]]
    /\ UNCHANGED <<tmp, source, indices, assessor, call, result, arrays,
                   sounding, validation, analyzer>>

\* analyzer = ConvectiveAnalyzer(sounding)
PipeAnalyzerInit(k) ==
    /\ pipelines[k].pc = "ConvectiveAnalyzer"
    /\ pipelines' = [pipelines EXCEPT ![k] =
            [pipelines[k] EXCEPT !.analyzer = ConvectiveAnalyzer(pipelines[k].sounding),
                                 !.pc = "lcl"]]
    /\ UNCHANGED <<tmp, source, indices, assessor, call, result, arrays,
                   sounding, validation, analyzer>>

\* calculate_indices: lcl_p, lcl_t = mpcalc.lcl(self.p[0], self.T[0],
\* self.Td[0])
PipeLcl(k) ==
    /\ pipelines[k].pc = "lcl"
    /\ LET me == pipelines[k]
       IN  IF Len(me.analyzer.p) = 0
           THEN pipelines' = [pipelines EXCEPT ![k] =
                                Stopped(k, Raised("IndexError"))]
           ELSE \E a \in LclAnswers :
                    pipelines' = [pipelines EXCEPT ![k] =
                        IF a.raises # ""
                        THEN [Stopped(k, Raised(a.raises)) EXCEPT !.mp.lcl = a]
                        ELSE [me EXCEPT !.mp.lcl = a, !.pc = "parcel_profile"]]
    /\ UNCHANGED <<tmp, source, indices, assessor, call, result, arrays,
                   sounding, validation, analyzer>>

\* calculate_indices: parcel_prof = mpcalc.parcel_profile(self.p, self.T[0],
\* self.Td[0])
PipeParcelProfile(k) ==
    /\ pipelines[k].pc = "parcel_profile"
    /\ LET me == pipelines[k]
       IN  \E a \in ParcelProfileAnswers(Len(me.analyzer.p)) :
                pipelines' = [pipelines EXCEPT ![k] =
                    IF a.raises # ""
                    THEN [Stopped(k, Raised(a.raises)) EXCEPT !.mp.parcel_profile = a]
                    ELSE [me EXCEPT !.mp.parcel_profile = a, !.pc = "lfc"]]
    /\ UNCHANGED <<tmp, source, indices, assessor, call, result, arrays,
                   sounding, validation, analyzer>>

\* calculate_indices: lfc_p, lfc_t = mpcalc.lfc(self.p, self.T, self.Td)
PipeLfc(k) ==
    /\ pipelines[k].pc = "lfc"
    /\ LET me == pipelines[k]
       IN  \E a \in LfcAnswers :
                pipelines' = [pipelines EXCEPT ![k] =
                    IF a.raises # ""
                    THEN [Stopped(k, Raised(a.raises)) EXCEPT !.mp.lfc = a]
                    ELSE [me EXCEPT !.mp.lfc = a, !.pc = "el"]]
    /\ UNCHANGED <<tmp, source, indices, assessor, call, result, arrays,
                   sounding, validation, analyzer>>

\* calculate_indices: el_p, el_t = mpcalc.el(self.p, self.T, self.Td)
PipeEl(k) ==
    /\ pipelines[k].pc = "el"
    /\ LET me == pipelines[k]
       IN  \E a \in ElAnswers :
                pipelines' = [pipelines EXCEPT ![k] =
                    IF a.raises # ""
                    THEN [Stopped(k, Raised(a.raises)) EXCEPT !.mp.el = a]
                    ELSE [me EXCEPT !.mp.el = a, !.pc = "cape_cin"]]
    /\ UNCHANGED <<tmp, source, indices, assessor, call, result, arrays,
                   sounding, validation, analyzer>>

\* calculate_indices: cape, cin = mpcalc.cape_cin(...), the NaN of the LFC
\* and the EL made None, and return ConvectiveIndices(...)
PipeCapeCin(k) ==
    /\ pipelines[k].pc = "cape_cin"
    /\ LET me == pipelines[k]
       IN  \E a \in CapeCinAnswers :
                pipelines' = [pipelines EXCEPT ![k] =
                    IF a.raises # ""
                    THEN [Stopped(k, Raised(a.raises)) EXCEPT !.mp.cape_cin = a]
                    ELSE [me EXCEPT
                            !.mp.cape_cin = a,
                            !.indices = calculate_indices(
                                            me.analyzer,
                                            [me.mp EXCEPT !.cape_cin = a]),
                            !.pc = "RiskAssessor"]]
    /\ UNCHANGED <<tmp, source, indices, assessor, call, result, arrays,
                   sounding, validation, analyzer>>

\* assessor = RiskAssessor(indices)
PipeConstruct(k) ==
    /\ pipelines[k].pc = "RiskAssessor"
    /\ pipelines' = [pipelines EXCEPT ![k] =
            [pipelines[k] EXCEPT !.assessor = RiskAssessor(pipelines[k].indices),
                                 !.pc = "assess_all"]]
    /\ UNCHANGED <<tmp, source, indices, assessor, call, result, arrays,
                   sounding, validation, analyzer>>

\* assessment = assessor.assess_all()
PipeAssessAll(k) ==
    /\ pipelines[k].pc = "assess_all"
    /\ pipelines' = [pipelines EXCEPT ![k] =
            [pipelines[k] EXCEPT !.assessment = assess_all(pipelines[k].assessor),
                                 !.pc = "done"]]
    /\ UNCHANGED <<tmp, source, indices, assessor, call, result, arrays,
                   sounding, validation, analyzer>>

NextConcurrent ==
    \E k \in Callers :
        \/ PipeFromArrays(k)
        \/ PipeOpenUpload(k)
        \/ PipeWriteUpload(k)
        \/ PipeLoadUpload(k)
        \/ PipeValidate(k)
        \/ PipeAnalyzerInit(k)
        \/ PipeLcl(k)
        \/ PipeParcelProfile(k)
        \/ PipeLfc(k)
        \/ PipeEl(k)
        \/ PipeCapeCin(k)
        \/ PipeConstruct(k)
        \/ PipeAssessAll(k)

Concurrent == InitConcurrent /\ [][NextConcurrent]_vars

TypeOK ==
    /\ indices = NoIndices \/ indices \in InputIndices
            \/ /\ analyzer # NoAnalyzer
               /\ \E mp \in LibraryAnswers(Len(analyzer.p)) :
                        indices = calculate_indices(analyzer, mp)
    /\ assessor = NoAssessor \/ assessor = RiskAssessor(indices)
    /\ sounding = NoSounding
            \/ /\ arrays # NoArrays
               /\ sounding = SoundingData(arrays.pressure, arrays.temperature,
                                          arrays.dewpoint)
            \/ (source # NoSource /\ sounding = Load(source))
    /\ validation = NoValidation \/ validation = validate(sounding)
    /\ analyzer = NoAnalyzer \/ analyzer = ConvectiveAnalyzer(sounding)
    /\ \A nm \in UploadNames :
            \/ tmp[nm] \in {MissingFile, EmptyFile}
            \/ (source # NoSource /\ source.loader = "upload"
                    /\ source.arg.name = nm /\ tmp[nm] = source.arg.file)
    /\ call \in {"none", "__init__", "classify_convective_potential",
                 "assess_general_risk", "assess_paragliding",
                 "assess_hang_gliding", "assess_hot_air_balloon",
                 "assess_gliding", "assess_general_aviation", "assess_all",
                 "quick_risk_assessment", "from_arrays", "from_wyoming",
                 "open", "write",
                 "from_wyoming_text", "from_csv", "from_dataframe",
                 "auto_detect", "load_example_sounding", "validate",
                 "ConvectiveAnalyzer", "calculate_indices", "quick_analysis"}

(***************************************************************************)
(* Helpers of the properties.                                              *)
(***************************************************************************)
\* the assessor built over the same indices with another CAPE / CIN
AtCape(c) == RiskAssessor([indices EXCEPT !.cape = c])
AtCin(n) == RiskAssessor([indices EXCEPT !.cin = n])

\* risk level and go/no-go of a StakeholderRisk
Decision(r) == <<r.risk_level, r.go_no_go>>

GO == TRUE
NOGO == FALSE

StakeholderMethods ==
    {"assess_paragliding", "assess_hang_gliding", "assess_hot_air_balloon",
     "assess_gliding", "assess_general_aviation"}

\* what method m classifies the assessor self as
Outcome(m, self) ==
    CASE m = "classify_convective_potential" -> classify_convective_potential(self)
      [] m = "assess_general_risk" -> assess_general_risk(self)
      [] m = "assess_paragliding" -> Decision(assess_paragliding(self))
      [] m = "assess_hang_gliding" -> Decision(assess_hang_gliding(self))
      [] m = "assess_hot_air_balloon" -> Decision(assess_hot_air_balloon(self))
      [] m = "assess_gliding" -> Decision(assess_gliding(self))
      [] m = "assess_general_aviation" -> Decision(assess_general_aviation(self))

\* what the method that returned last classified the indices as
Returned == IF call \in StakeholderMethods THEN Decision(result) ELSE result

(***************************************************************************)
(* C1: assess_general_risk returns MINIMAL when CIN > 200, LOW when        *)
(* 100 < CIN <= 200, and otherwise by CAPE alone: LOW below 300, MODERATE  *)
(* below 1000, HIGH below 2500, EXTREME from 2500 on.                      *)
(***************************************************************************)
C1_GeneralRisk ==
    call = "assess_general_risk" =>
        LET cape == assessor.cape
            cin == assessor.cin
        IN  /\ cin > 200 => result = "MINIMAL"
            /\ (100 < cin /\ cin <= 200) => result = "LOW"
            /\ (cin <= 100 /\ cape < 300) => result = "LOW"
            /\ (cin <= 100 /\ 300 <= cape /\ cape < 1000) => result = "MODERATE"
            /\ (cin <= 100 /\ 1000 <= cape /\ cape < 2500) => result = "HIGH"
            /\ (cin <= 100 /\ 2500 <= cape) => result = "EXTREME"

C1_Witness ==
    /\ call = "assess_general_risk"
    /\ assessor.cin = 100
    /\ assessor.cape = 2500
    /\ result = "EXTREME"

(***************************************************************************)
(* C2: assess_paragliding checks CIN before CAPE: MINIMAL/GO when          *)
(* CIN > 200, LOW/GO when CIN > 50, otherwise EXTREME/NO-GO when           *)
(* CAPE > 1000, HIGH/NO-GO when CAPE > 500, MODERATE/GO in the rest.       *)
(***************************************************************************)
C2_Paragliding ==
    call = "assess_paragliding" =>
        LET cape == assessor.cape
            cin == assessor.cin
        IN  /\ result.activity = "Paragliding"
            /\ cin > 200 => Decision(result) = <<"MINIMAL", GO>>
            /\ (50 < cin /\ cin <= 200) => Decision(result) = <<"LOW", GO>>
            /\ (cin <= 50 /\ cape > 1000) => Decision(result) = <<"EXTREME", NOGO>>
            /\ (cin <= 50 /\ 500 < cape /\ cape <= 1000) =>
                    Decision(result) = <<"HIGH", NOGO>>
            /\ (cin <= 50 /\ cape <= 500) => Decision(result) = <<"MODERATE", GO>>

C2_Witness ==
    /\ call = "assess_paragliding"
    /\ assessor.cin = 51
    /\ assessor.cape > 1000
    /\ Decision(result) = <<"LOW", GO>>

(***************************************************************************)
(* C3: assess_hot_air_balloon returns EXTREME/NO-GO when CAPE > 500,       *)
(* HIGH/NO-GO when 200 < CAPE <= 500, otherwise MINIMAL/GO when CIN > 100  *)
(* and LOW/GO when CIN <= 100; once CAPE > 200 no CIN changes the outcome. *)
(***************************************************************************)
C3_HotAirBalloon ==
    call = "assess_hot_air_balloon" =>
        LET cape == assessor.cape
            cin == assessor.cin
        IN  /\ cape > 500 => Decision(result) = <<"EXTREME", NOGO>>
            /\ (200 < cape /\ cape <= 500) => Decision(result) = <<"HIGH", NOGO>>
            /\ (cape <= 200 /\ cin > 100) => Decision(result) = <<"MINIMAL", GO>>
            /\ (cape <= 200 /\ cin <= 100) => Decision(result) = <<"LOW", GO>>
            /\ cape > 200 =>
                    \A n \in Signed(CinMagnitudes) :
                        Decision(assess_hot_air_balloon(AtCin(n))) = Decision(result)

C3_Witness ==
    /\ call = "assess_hot_air_balloon"
    /\ assessor.cape = 201
    /\ assessor.cin > 100
    /\ Decision(result) = <<"HIGH", NOGO>>

(***************************************************************************)
(* C4: assess_hang_gliding gives the paragliding risk level and go/no-go   *)
(* for the same inputs, except that paragliding HIGH becomes MODERATE/GO   *)
(* and paragliding MODERATE becomes LOW/GO.                                *)
(***************************************************************************)
C4_HangGliding ==
    call = "assess_hang_gliding" =>
        LET pg == assess_paragliding(assessor)
        IN  /\ pg.risk_level = "HIGH" => Decision(result) = <<"MODERATE", GO>>
            /\ pg.risk_level = "MODERATE" => Decision(result) = <<"LOW", GO>>
            /\ pg.risk_level \in {"EXTREME", "LOW", "MINIMAL"} =>
                    Decision(result) = Decision(pg)

C4_Witness ==
    /\ call = "assess_hang_gliding"
    /\ Decision(assess_paragliding(assessor)) = <<"HIGH", NOGO>>
    /\ Decision(result) = <<"MODERATE", GO>>

(***************************************************************************)
(* C5: assess_gliding returns HIGH/NO-GO when CAPE > 2500; for             *)
(* 1000 < CAPE <= 2500, LOW/GO if CIN > 100 and MODERATE/GO otherwise;     *)
(* LOW/GO when 300 < CAPE <= 1000; MINIMAL/GO when CAPE <= 300.            *)
(***************************************************************************)
C5_Gliding ==
    call = "assess_gliding" =>
        LET cape == assessor.cape
            cin == assessor.cin
        IN  /\ cape > 2500 => Decision(result) = <<"HIGH", NOGO>>
            /\ (1000 < cape /\ cape <= 2500 /\ cin > 100) =>
                    Decision(result) = <<"LOW", GO>>
            /\ (1000 < cape /\ cape <= 2500 /\ cin <= 100) =>
                    Decision(result) = <<"MODERATE", GO>>
            /\ (300 < cape /\ cape <= 1000) => Decision(result) = <<"LOW", GO>>
            /\ cape <= 300 => Decision(result) = <<"MINIMAL", GO>>

C5_Witness ==
    /\ call = "assess_gliding"
    /\ assessor.cape = 2500
    /\ assessor.cin = 100
    /\ Decision(result) = <<"MODERATE", GO>>

(***************************************************************************)
(* C6: assess_general_aviation returns HIGH/NO-GO when CAPE > 1500,        *)
(* MODERATE/GO when 500 < CAPE <= 1500, LOW/GO when CAPE <= 500, and no    *)
(* CIN changes that.                                                       *)
(***************************************************************************)
C6_GeneralAviation ==
    call = "assess_general_aviation" =>
        LET cape == assessor.cape
        IN  /\ cape > 1500 => Decision(result) = <<"HIGH", NOGO>>
            /\ (500 < cape /\ cape <= 1500) => Decision(result) = <<"MODERATE", GO>>
            /\ cape <= 500 => Decision(result) = <<"LOW", GO>>
            /\ \A n \in Signed(CinMagnitudes) :
                    Decision(assess_general_aviation(AtCin(n))) = Decision(result)

C6_Witness ==
    /\ call = "assess_general_aviation"
    /\ assessor.cape = 1500
    /\ assessor.cin > 200
    /\ Decision(result) = <<"MODERATE", GO>>

(***************************************************************************)
(* C7: classify_convective_potential returns WEAK when CAPE < 300,         *)
(* MODERATE when CAPE < 1000, STRONG when CAPE < 2500, EXTREME otherwise,  *)
(* whatever the CIN is, hence whatever risk levels the same CAPE gets.     *)
(***************************************************************************)
C7_ConvectivePotential ==
    call = "classify_convective_potential" =>
        LET cape == assessor.cape
        IN  /\ cape < 300 => result = "WEAK"
            /\ (300 <= cape /\ cape < 1000) => result = "MODERATE"
            /\ (1000 <= cape /\ cape < 2500) => result = "STRONG"
            /\ 2500 <= cape => result = "EXTREME"
            /\ \A n \in Signed(CinMagnitudes) :
                    classify_convective_potential(AtCin(n)) = result

\* an EXTREME label on indices whose general risk is MINIMAL
C7_Witness ==
    /\ call = "classify_convective_potential"
    /\ indices.cape < 0
    /\ assessor.cape > 2500
    /\ assess_general_risk(assessor) = "MINIMAL"
    /\ result = "EXTREME"

(***************************************************************************)
(* C8: every threshold is an exclusive lower bound of the higher           *)
(* bucket, for general risk, convective potential and the five stakeholder *)
(* assessments: an input exactly on a threshold is classified as the input *)
(* just below it is.                                                       *)
(***************************************************************************)
C8_AllThresholdsExclusive ==
    call \in StakeholderMethods \cup
             {"assess_general_risk", "classify_convective_potential"} =>
        /\ assessor.cape \in CapeThresholds =>
                Returned = Outcome(call, AtCape(assessor.cape - 1))
        /\ assessor.cin \in CinThresholds =>
                Returned = Outcome(call, AtCin(assessor.cin - 1))

(***************************************************************************)
(* C9: CAPE exactly 1000 is given convective potential MODERATE,           *)
(* not STRONG.                                                             *)
(***************************************************************************)
C9_Cape1000Moderate ==
    /\ (call = "classify_convective_potential" /\ assessor.cape = 1000) =>
            result = "MODERATE"
    /\ (call = "assess_all" /\ assessor.cape = 1000) =>
            result.convective_potential = "MODERATE"

(***************************************************************************)
(* C10: general risk is monotone in CAPE: for the CIN held fixed, every    *)
(* CAPE magnitude at or above the assessed one scores at least as much.    *)
(***************************************************************************)
C10_MonotoneInCape ==
    call = "assess_general_risk" =>
        \A c2 \in CapeMagnitudes :
            assessor.cape <= c2 =>
                score(assess_general_risk(AtCape(c2))) >= score(result)

\* a LOW result that a larger CAPE raises, with no cap in the way
C10_Witness ==
    /\ call = "assess_general_risk"
    /\ assessor.cin <= 100
    /\ assessor.cape = 299
    /\ result = "LOW"
    /\ \E c2 \in CapeMagnitudes :
            /\ assessor.cape <= c2
            /\ score(assess_general_risk(AtCape(c2))) > score(result)

(***************************************************************************)
(* C11: assess_all never fails: over any indices, with LFC and EL present  *)
(* or absent and no parcel profile, it can be called and returns a general *)
(* risk level, a convective potential label and one StakeholderRisk for    *)
(* each of the five activities.                                            *)
(***************************************************************************)
IsStakeholderRisk(r, activity) ==
    /\ DOMAIN r = {"activity", "risk_level", "go_no_go", "reasoning", "precautions"}
    /\ r.activity = activity
    /\ r.risk_level \in RiskLevel
    /\ r.go_no_go \in BOOLEAN

C11_AssessAllTotal ==
    /\ assessor # NoAssessor => ENABLED AssessAll
    /\ call = "assess_all" =>
        /\ DOMAIN result = {"general_risk", "convective_potential",
                            "paragliding", "hang_gliding", "hot_air_balloon",
                            "gliding", "general_aviation"}
        /\ result.general_risk \in RiskLevel
        /\ result.convective_potential \in {"WEAK", "MODERATE", "STRONG", "EXTREME"}
        /\ IsStakeholderRisk(result.paragliding, "Paragliding")
        /\ IsStakeholderRisk(result.hang_gliding, "Hang Gliding")
        /\ IsStakeholderRisk(result.hot_air_balloon, "Hot Air Balloon")
        /\ IsStakeholderRisk(result.gliding, "Gliding (Sailplanes)")
        /\ IsStakeholderRisk(result.general_aviation, "General Aviation (VFR)")
    /\ call = "quick_risk_assessment" =>
        /\ result.general_risk \in RiskLevel
        /\ DOMAIN result.stakeholders =
                {"paragliding", "hang_gliding", "hot_air_balloon", "gliding",
                 "general_aviation"}
        /\ result.stakeholders.hang_gliding.activity = "Hang Gliding"

C11_Witness ==
    /\ call = "assess_all"
    /\ indices.lfc_pressure = None
    /\ indices.el_pressure # None
    /\ indices.parcel_profile = None
    /\ result.hang_gliding.activity = "Hang Gliding"

(***************************************************************************)
(* C12: CIN is consumed as an absolute value: the whole assessment of      *)
(* indices with CIN = -x is the assessment of the same indices with        *)
(* CIN = +x.                                                               *)
(***************************************************************************)
C12_CinSignIgnored ==
    call = "assess_all" =>
        result = assess_all(RiskAssessor([indices EXCEPT !.cin = 0 - indices.cin]))

C12_Witness ==
    /\ call = "assess_all"
    /\ indices.cin < 0 - 200
    /\ result.general_risk = "MINIMAL"
    /\ result.paragliding.reasoning.value = 0 - indices.cin

(***************************************************************************)
(* C13 as stated: with CAPE of about 50 and a CIN magnitude of about 150   *)
(* or more, general risk is LOW and paragliding is GO.                     *)
(***************************************************************************)
ScenarioA ==
    /\ call = "assess_all"
    /\ assessor.cape \in Near({50})
    /\ \E n \in Near({150}) : assessor.cin >= n

C13_ScenarioALow ==
    ScenarioA => /\ result.general_risk = "LOW"
                 /\ result.paragliding.go_no_go = GO

(***************************************************************************)
(* C13 amended: with CAPE of about 50 and a CIN magnitude of about 150 or  *)
(* more, paragliding is GO and general risk is LOW while CIN is at most    *)
(* 200, MINIMAL once CIN exceeds 200.                                      *)
(***************************************************************************)
C13_ScenarioA ==
    ScenarioA => /\ assessor.cin <= 200 => result.general_risk = "LOW"
                 /\ assessor.cin > 200 => result.general_risk = "MINIMAL"
                 /\ result.paragliding.go_no_go = GO

C13_Witness ==
    /\ ScenarioA
    /\ assessor.cape = 50
    /\ assessor.cin = 150
    /\ result.general_risk = "LOW"
    /\ result.paragliding.go_no_go = GO

(***************************************************************************)
(* C14: with CAPE between 1500 and 2500 and a CIN magnitude of at most 50, *)
(* general risk is HIGH, the hot-air balloon is EXTREME/NO-GO and general  *)
(* aviation is HIGH/NO-GO.                                                 *)
(***************************************************************************)
ScenarioB ==
    /\ call = "assess_all"
    /\ 1500 < assessor.cape
    /\ assessor.cape < 2500
    /\ assessor.cin <= 50

C14_ScenarioB ==
    ScenarioB => /\ result.general_risk = "HIGH"
                 /\ Decision(result.hot_air_balloon) = <<"EXTREME", NOGO>>
                 /\ Decision(result.general_aviation) = <<"HIGH", NOGO>>

C14_Witness ==
    /\ ScenarioB
    /\ assessor.cape = 1800
    /\ assessor.cin = 20
    /\ result.general_risk = "HIGH"
    /\ Decision(result.general_aviation) = <<"HIGH", NOGO>>

(***************************************************************************)
(* Helpers of the engine properties.                                       *)
(***************************************************************************)
\* the engine has run on the arrays, through the analyzer of the application
\* or through quick_analysis
EngineRan ==
    \/ call = "calculate_indices"
    \/ /\ call = "quick_analysis"
       /\ ~IsRaised(SoundingData(arrays.pressure, arrays.temperature,
                                 arrays.dewpoint))

\* the arrays the engine has run on
EngineInput ==
    IF call = "quick_analysis" THEN arrays
    ELSE [pressure |-> analyzer.p, temperature |-> analyzer.T,
          dewpoint |-> analyzer.Td]

DewpointAboveTemperature(a) ==
    \E i \in 1..Len(a.pressure) : greater(a.dewpoint[i], a.temperature[i])

PressureStrictlyDecreasing(p) ==
    \A i \in 1..(Len(p) - 1) : less(p[i + 1], p[i])

NonPositivePressure(p) == \E i \in 1..Len(p) : ~greater(p[i], 0)

(***************************************************************************)
(* C15: calculate_indices, also through quick_analysis, checks for at      *)
(* least 2 levels first: on an empty or single-level profile it fails with *)
(* an insufficient-data error and returns no ConvectiveIndices.            *)
(***************************************************************************)
C15_InsufficientData ==
    (EngineRan /\ Len(EngineInput.pressure) < 2) =>
        result = Raised("InsufficientDataError")

(***************************************************************************)
(* C16: on a profile with dewpoint above temperature at some level, with   *)
(* pressure not strictly decreasing, or with a non-positive pressure,      *)
(* calculate_indices reports an error and returns no ConvectiveIndices.    *)
(***************************************************************************)
C16_FailsFast ==
    (/\ EngineRan
     /\ \/ DewpointAboveTemperature(EngineInput)
        \/ ~PressureStrictlyDecreasing(EngineInput.pressure)
        \/ NonPositivePressure(EngineInput.pressure)) =>
        IsRaised(result)

(***************************************************************************)
(* C17: in the application (load, validate, analyzer only when valid) the  *)
(* engine is never given a sounding whose arrays differ in length, whose   *)
(* dewpoint exceeds temperature at some level, or whose pressure is not    *)
(* strictly decreasing.                                                    *)
(***************************************************************************)
C17_ValidatedProfilesSound ==
    analyzer # NoAnalyzer =>
        /\ Len(analyzer.T) = Len(analyzer.p)
        /\ Len(analyzer.Td) = Len(analyzer.p)
        /\ ~DewpointAboveTemperature(sounding)
        /\ PressureStrictlyDecreasing(analyzer.p)

(***************************************************************************)
(* C24: in every RiskAssessment of assess_all, each of the five            *)
(* stakeholders is NO-GO exactly when its risk level is HIGH or EXTREME    *)
(* (score >= 4) and GO exactly when it is MINIMAL, LOW or MODERATE.        *)
(***************************************************************************)
Stakeholders ==
    {"paragliding", "hang_gliding", "hot_air_balloon", "gliding",
     "general_aviation"}

C24_GoIffBelowHigh ==
    call = "assess_all" =>
        \A s \in Stakeholders :
            /\ result[s].go_no_go = NOGO <=> score(result[s].risk_level) >= 4
            /\ result[s].go_no_go = GO <=>
                    result[s].risk_level \in {"MINIMAL", "LOW", "MODERATE"}

\* a MODERATE GO next to a HIGH NO-GO in one assessment
C24_Witness ==
    /\ call = "assess_all"
    /\ Decision(result.gliding) = <<"MODERATE", GO>>
    /\ Decision(result.general_aviation) = <<"HIGH", NOGO>>
    /\ Decision(result.hang_gliding) = <<"EXTREME", NOGO>>

(***************************************************************************)
(* C25: the hot-air balloon is the most conservative activity: whenever    *)
(* the balloon is GO, paragliding, hang gliding, gliding and general       *)
(* aviation are GO for the same indices.                                   *)
(***************************************************************************)
C25_BalloonMostConservative ==
    call = "assess_all" =>
        /\ result.hot_air_balloon.go_no_go = GO =>
                \A s \in Stakeholders : result[s].go_no_go = GO
        /\ (\E s \in Stakeholders : result[s].go_no_go = NOGO) =>
                result.hot_air_balloon.go_no_go = NOGO

\* the balloon is GO at its limit, and alone NO-GO just above it
C25_Witness ==
    /\ call = "assess_all"
    /\ assessor.cape = 200
    /\ assessor.cin <= 50
    /\ result.hot_air_balloon.go_no_go = GO
    /\ result.paragliding.go_no_go = GO
    /\ assess_all(AtCape(201)).hot_air_balloon.go_no_go = NOGO
    /\ assess_all(AtCape(201)).paragliding.go_no_go = GO

(***************************************************************************)
(* C26: hang gliding is never assessed more severely than paragliding:     *)
(* its score is at most the paragliding score, it is GO whenever           *)
(* paragliding is GO, it is never HIGH, it is NO-GO only when paragliding  *)
(* is EXTREME, and its precautions are those of paragliding.               *)
(***************************************************************************)
C26_HangGlidingMoreTolerant ==
    call = "assess_all" =>
        /\ score(result.hang_gliding.risk_level) <=
                score(result.paragliding.risk_level)
        /\ result.paragliding.go_no_go = GO => result.hang_gliding.go_no_go = GO
        /\ result.hang_gliding.risk_level # "HIGH"
        /\ result.hang_gliding.go_no_go = NOGO =>
                result.paragliding.risk_level = "EXTREME"
        /\ result.hang_gliding.precautions = result.paragliding.precautions

\* paragliding HIGH and NO-GO, hang gliding MODERATE and GO
C26_Witness ==
    /\ call = "assess_all"
    /\ Decision(result.paragliding) = <<"HIGH", NOGO>>
    /\ Decision(result.hang_gliding) = <<"MODERATE", GO>>
    /\ result.hang_gliding.precautions = <<"Fly early morning only",
                                           "Land by 11am",
                                           "Watch for first cumulus">>

(***************************************************************************)
(* C23: every SoundingData object has pressure, temperature and dewpoint   *)
(* arrays of one length: from_arrays and quick_analysis, given a           *)
(* temperature or dewpoint array of another length than the pressure       *)
(* array, raise ValueError and yield no object.                            *)
(***************************************************************************)
LengthsDiffer(a) ==
    \/ Len(a.temperature) # Len(a.pressure)
    \/ Len(a.dewpoint) # Len(a.pressure)

C23_EqualLengths ==
    /\ sounding # NoSounding =>
        /\ Len(sounding.temperature) = Len(sounding.pressure)
        /\ Len(sounding.dewpoint) = Len(sounding.pressure)
    /\ analyzer # NoAnalyzer =>
        /\ Len(analyzer.T) = Len(analyzer.p)
        /\ Len(analyzer.Td) = Len(analyzer.p)
    /\ (call = "from_arrays" /\ LengthsDiffer(arrays)) =>
        /\ result = Raised("ValueError")
        /\ sounding = NoSounding
    /\ (call = "quick_analysis" /\ LengthsDiffer(arrays)) =>
        result = Raised("ValueError")
    /\ (call \in {"from_arrays", "quick_analysis"} /\ ~LengthsDiffer(arrays)) =>
        result # Raised("ValueError")

\* a dewpoint column one level short, under a temperature column of the
\* right length, was refused
C23_Witness ==
    /\ call = "from_arrays"
    /\ Len(arrays.pressure) = MinPoints
    /\ Len(arrays.temperature) = Len(arrays.pressure)
    /\ Len(arrays.dewpoint) < Len(arrays.pressure)
    /\ result = Raised("ValueError")
    /\ sounding = NoSounding

(***************************************************************************)
(* C21: analyses of distinct soundings are independent under any           *)
(* interleaving: of two pipelines running concurrently on different        *)
(* inputs, each produces exactly what it produces when run alone, the      *)
(* library answering its calls as it did.                                  *)
(***************************************************************************)
\* what main produces run alone, start to end, on the input: asked holds
\* the answers the library gave the caller, and where the caller never
\* came to ask, the library answers as it may
RunAlone(input, asked) ==
    LET s == IF input.method = "manual"
             THEN from_arrays(input.arrays.pressure, input.arrays.temperature,
                              input.arrays.dewpoint)
             ELSE load_upload(input.name, input.file)
        v == validate(s)
        nothing == [validation |-> NoValidation, indices |-> NoIndices,
                    assessment |-> NoResult, error |-> None]
        Analysis(mp) ==
            LET r == calculate_indices(ConvectiveAnalyzer(s), mp)
            IN  IF IsRaised(r) THEN [nothing EXCEPT !.validation = v,
                                                    !.error = Some(r)]
                ELSE [validation |-> v, indices |-> r,
                      assessment |-> assess_all(RiskAssessor(r)),
                      error |-> None]
    IN  IF IsRaised(s) THEN {[nothing EXCEPT !.error = Some(s)]}
        ELSE IF IsRaised(v) THEN {[nothing EXCEPT !.error = Some(v)]}
        ELSE IF ~v.valid THEN {[nothing EXCEPT !.validation = v]}
        ELSE {Analysis(mp) :
                mp \in IF asked.lcl = NoAnswer
                       THEN LibraryAnswers(Len(s.pressure))
                       ELSE {asked}}

\* what a pipeline has produced
Produced(q) ==
    [validation |-> q.validation, indices |-> q.indices,
     assessment |-> q.assessment, error |-> q.error]

C21_Independent ==
    \A k \in DOMAIN pipelines :
        pipelines[k].pc \in {"done", "stopped"} =>
            Produced(pipelines[k]) \in
                RunAlone(pipelines[k].input, pipelines[k].mp)

====
